---------------------------- MODULE Spec2Model ----------------------------
(***************************************************************************)
(* A model of the data-quality remediation pipeline: the issue detection   *)
(* engine, the fix strategies, the batch fix executor                      *)
(* (FixingEngine/FixExecutor.py) and the interactive controller with its   *)
(* executor (Module_4_FixingEngine).                                       *)
(*                                                                         *)
(* Text is a sequence of one-character strings, so that strip, lower and   *)
(* the regular-expression tests of the code are computed, not assumed.     *)
(* A cell is a null (NaN), an integer or a text.  A DataFrame is an object *)
(* on a heap: `self.df = df.copy()` allocates, `inplace=True` and          *)
(* `self.df[col] = ...` write the object, `self.df = self.df[mask]`        *)
(* allocates a new object and rebinds the attribute.                       *)
(***************************************************************************)
EXTENDS Integers, Sequences, FiniteSets, TLC

(***************************************************************************)
(* Sequences.                                                              *)
(***************************************************************************)
Range(s) == {s[i] : i \in 1..Len(s)}

RECURSIVE SumSeq(_)
SumSeq(s) == IF s = <<>> THEN 0 ELSE Head(s) + SumSeq(Tail(s))

RECURSIVE FilterSeq(_, _)
\* the elements of s whose place is in the set keep, in order
FilterSeq(s, keep) ==
    IF s = <<>> THEN <<>>
    ELSE LET n == Len(s)
             front == FilterSeq(SubSeq(s, 1, n - 1), keep)
         IN IF n \in keep THEN Append(front, s[n]) ELSE front

RECURSIVE SortedInts(_)
\* sorted(set of integers)
SortedInts(S) ==
    IF S = {} THEN <<>>
    ELSE LET m == CHOOSE x \in S : \A y \in S : x <= y
         IN <<m>> \o SortedInts(S \ {m})

RECURSIVE InsertSorted(_, _)
InsertSorted(s, x) ==
    IF s = <<>> THEN <<x>>
    ELSE IF x < Head(s) THEN <<x>> \o s
    ELSE <<Head(s)>> \o InsertSorted(Tail(s), x)

RECURSIVE SortAsc(_)
\* a sequence of integers in ascending order, repeats kept
SortAsc(s) == IF s = <<>> THEN <<>> ELSE InsertSorted(SortAsc(Tail(s)), Head(s))

Abs(x) == IF x < 0 THEN -x ELSE x

(***************************************************************************)
(* Characters and text (Python str).                                       *)
(***************************************************************************)
UpperChars == <<"A","B","C","D","E","F","G","H","I","J","K","L","M",
                "N","O","P","Q","R","S","T","U","V","W","X","Y","Z">>
LowerChars == <<"a","b","c","d","e","f","g","h","i","j","k","l","m",
                "n","o","p","q","r","s","t","u","v","w","x","y","z">>
DigitChars == <<"0","1","2","3","4","5","6","7","8","9">>
\* the class [?!@#$%^&*] of the executor and of the missing-value strategy
SpecialChars == {"?","!","@","#","$","%","^","&","*"}
\* the class [?!#$%^&*] of the detection engine and of the text strategy
SpecialCharsNoAt == SpecialChars \ {"@"}
\* \s
SpaceChars == {" "}

IsUpperChar(c) == c \in Range(UpperChars)
IsLowerChar(c) == c \in Range(LowerChars)
IsAlphaChar(c) == IsUpperChar(c) \/ IsLowerChar(c)
IsDigitChar(c) == c \in Range(DigitChars)

LowerChar(c) ==
    IF IsUpperChar(c)
    THEN LowerChars[CHOOSE i \in 1..26 : UpperChars[i] = c]
    ELSE c

\* str.lower()
StrLower(s) == [i \in 1..Len(s) |-> LowerChar(s[i])]

RECURSIVE LStrip(_)
LStrip(s) == IF s # <<>> /\ Head(s) \in SpaceChars THEN LStrip(Tail(s)) ELSE s

RECURSIVE RStrip(_)
RStrip(s) ==
    IF s # <<>> /\ s[Len(s)] \in SpaceChars
    THEN RStrip(SubSeq(s, 1, Len(s) - 1)) ELSE s

\* str.strip()
StrStrip(s) == RStrip(LStrip(s))

\* str.contains of a character class
HasCharIn(s, class) == \E i \in 1..Len(s) : s[i] \in class

\* str.contains(r'^\s|\s$')
HasEdgeSpace(s) == s # <<>> /\ (s[1] \in SpaceChars \/ s[Len(s)] \in SpaceChars)

\* str.contains(r'[a-zA-Z]')
HasAlpha(s) == \E i \in 1..Len(s) : IsAlphaChar(s[i])

\* str.replace(class, '', regex=True)
RemoveChars(s, class) == FilterSeq(s, {i \in 1..Len(s) : s[i] \notin class})

\* `sub in s`
Contains(s, sub) ==
    \E i \in 1..(Len(s) - Len(sub) + 1) : SubSeq(s, i, i + Len(sub) - 1) = sub

\* str.isupper(): a cased character, and none of them lower
StrIsUpper(s) ==
    /\ \E i \in 1..Len(s) : IsUpperChar(s[i])
    /\ \A i \in 1..Len(s) : ~IsLowerChar(s[i])

\* str.islower()
StrIsLower(s) ==
    /\ \E i \in 1..Len(s) : IsLowerChar(s[i])
    /\ \A i \in 1..Len(s) : ~IsUpperChar(s[i])

DigitOf(c) == (CHOOSE i \in 1..10 : DigitChars[i] = c) - 1

RECURSIVE DigitsValue(_)
DigitsValue(s) ==
    IF s = <<>> THEN 0
    ELSE 10 * DigitsValue(SubSeq(s, 1, Len(s) - 1)) + DigitOf(s[Len(s)])

IsDigits(s) == s # <<>> /\ \A i \in 1..Len(s) : IsDigitChar(s[i])

RECURSIVE NatStr(_)
\* str(n) of a natural number
NatStr(n) ==
    IF n < 10 THEN <<DigitChars[n + 1]>>
    ELSE Append(NatStr(n \div 10), DigitChars[(n % 10) + 1])

IntStr(n) == IF n < 0 THEN <<"-">> \o NatStr(-n) ELSE NatStr(n)

(***************************************************************************)
(* Cells.                                                                  *)
(***************************************************************************)
\* A number is an integer, or an odd number of halves (a median of an even
\* count of integers): Half(w) is w/2.
NaN     == [k |-> "nan", v |-> 0, s |-> <<>>]
Num(n)  == [k |-> "num", v |-> n, s |-> <<>>]
Half(w) == [k |-> "half", v |-> w, s |-> <<>>]
Str(t)  == [k |-> "str", v |-> 0, s |-> t]

IsNa(c)  == c.k = "nan"
IsNum(c) == c.k \in {"num", "half"}
IsStr(c) == c.k = "str"

\* twice the value of a number, and the number that is w/2
Twice(c)   == IF c.k = "half" THEN c.v ELSE 2 * c.v
OfTwice(w) == IF w % 2 = 0 THEN Num(w \div 2) ELSE Half(w)

\* comparisons of a number with an integer
Lt(c, n) == Twice(c) < 2 * n
Gt(c, n) == Twice(c) > 2 * n
Le(c, n) == Twice(c) <= 2 * n

W_nan == <<"n","a","n">>

\* astype(str) of one cell
AsStr(c) ==
    CASE c.k = "nan"  -> W_nan
      [] c.k = "num"  -> IntStr(c.v)
      [] c.k = "half" ->
            (IF c.v < 0 THEN <<"-">> ELSE <<>>) \o NatStr(Abs(c.v) \div 2) \o <<".", "5">>
      [] OTHER        -> c.s

\* whether a text is a decimal integer, with an optional sign
IsIntText(s) ==
    \/ IsDigits(s)
    \/ Len(s) > 1 /\ s[1] = "-" /\ IsDigits(Tail(s))

IntTextValue(s) == IF s[1] = "-" THEN -DigitsValue(Tail(s)) ELSE DigitsValue(s)

\* a numeral: an integer, or an integer followed by .0 or .5 (the only
\* decimals that the numbers of the model print as)
IsNumeral(s) ==
    \/ IsIntText(s)
    \/ /\ Len(s) > 2
       /\ IsIntText(SubSeq(s, 1, Len(s) - 2))
       /\ s[Len(s) - 1] = "."
       /\ s[Len(s)] \in {"0", "5"}

NumeralValue(s) ==
    IF IsIntText(s) THEN Num(IntTextValue(s))
    ELSE LET whole == SubSeq(s, 1, Len(s) - 2)
             w == 2 * Abs(IntTextValue(whole)) + (IF s[Len(s)] = "5" THEN 1 ELSE 0)
         IN OfTwice(IF whole[1] = "-" THEN -w ELSE w)

\* pd.to_numeric(errors='coerce') of one cell; the parser skips the blanks
\* around a numeral
ToNumeric(c) ==
    CASE IsNum(c) -> c
      [] IsStr(c) /\ IsNumeral(StrStrip(c.s)) -> NumeralValue(StrStrip(c.s))
      [] OTHER -> NaN

\* int(round(x)): halves go to the even neighbour
IntRound(c) ==
    IF c.k = "half"
    THEN LET lo == (c.v - 1) \div 2 IN Num(IF lo % 2 = 0 THEN lo ELSE lo + 1)
    ELSE c

(***************************************************************************)
(* Column names are texts too: `'id' in col.lower()` is a substring test.  *)
(***************************************************************************)
N_id         == <<"i","d">>
N_age        == <<"a","g","e">>
N_name       == <<"n","a","m","e">>
N_city       == <<"c","i","t","y">>
N_percentage == <<"p","e","r","c","e","n","t","a","g","e">>
N_salary     == <<"s","a","l","a","r","y">>
N_joined     == <<"j","o","i","n","e","d">>
N_customer_id == <<"c","u","s","t","o","m","e","r","_","i","d">>
N_start      == <<"s","t","a","r","t">>
N_end        == <<"e","n","d">>
\* a column no dataset of the model holds
N_ghost      == <<"g","h","o","s","t">>
N_all        == <<"All columns">>
N_All        == <<"All Columns">>

(***************************************************************************)
(* DataFrames: ordered column names and rows; a row maps each column name  *)
(* to a cell.  Rows have no identity beyond their position.                *)
(***************************************************************************)
HasCol(d, c) == c \in Range(d.cols)
NRows(d)     == Len(d.rows)
Column(d, c) == [i \in 1..NRows(d) |-> d.rows[i][c]]

\* df[c] = vals, for a column that exists or not
SetCol(d, c, vals) ==
    [cols |-> IF HasCol(d, c) THEN d.cols ELSE Append(d.cols, c),
     rows |-> [i \in 1..NRows(d) |->
                 [x \in DOMAIN d.rows[i] \cup {c} |->
                     IF x = c THEN vals[i] ELSE d.rows[i][x]]]]

\* df[c] = df[c].apply(F)
MapCol(d, c, F(_)) == SetCol(d, c, [i \in 1..NRows(d) |-> F(d.rows[i][c])])

\* df[mask]: the rows whose position is in keep
KeepRows(d, keep) == [cols |-> d.cols, rows |-> FilterSeq(d.rows, keep)]

\* df.drop(columns=[c])
DropCol(d, c) ==
    [cols |-> FilterSeq(d.cols, {i \in 1..Len(d.cols) : d.cols[i] # c}),
     rows |-> [i \in 1..NRows(d) |->
                 [x \in DOMAIN d.rows[i] \ {c} |-> d.rows[i][x]]]]

CountIf(d, c, P(_)) == Cardinality({i \in 1..NRows(d) : P(d.rows[i][c])})

\* the non-null values of pd.to_numeric(df[c], errors='coerce'), doubled
NumericValues2(d, c) ==
    LET idx == {i \in 1..NRows(d) : IsNum(ToNumeric(d.rows[i][c]))}
    IN [j \in 1..Cardinality(idx) |->
          Twice(ToNumeric(d.rows[FilterSeq([i \in 1..NRows(d) |-> i], idx)[j]][c]))]

\* pd.api.types.is_numeric_dtype: a column of numbers and nulls only
IsNumericDtype(d, c) == \A i \in 1..NRows(d) : ~IsStr(d.rows[i][c])

(***************************************************************************)
(* Fixes, log entries.                                                     *)
(***************************************************************************)
\* Python None, where a metadata key is absent or holds None
None == [k |-> "none", v |-> 0, s |-> <<>>]

NoMetadata ==
    [median_value |-> None, mean_value |-> None, mode_value |-> None,
     round_to_int |-> FALSE, p1 |-> None, p99 |-> None,
     p5 |-> None, p95 |-> None,
     lower_bound |-> None, upper_bound |-> None,
     default_date |-> None, median_date |-> None]

\* DataFix(...)
DataFix(fix_id, issue_id, column, is_recommended, metadata) ==
    [fix_id |-> fix_id, issue_id |-> issue_id, column |-> column,
     fix_label |-> fix_id, is_recommended |-> is_recommended,
     metadata |-> metadata]

VCount(n) == [t |-> "count", n |-> n]
VRows(n)  == [t |-> "rows removed", n |-> n]
VText(s)  == [t |-> s, n |-> 0]

LogEntry(column, fix_applied, values_changed) ==
    [column |-> column, fix_applied |-> fix_applied,
     values_changed |-> values_changed]

ResetLabel == "Reset ID to sequential (1 to n)"

(***************************************************************************)
(* The executor object: heap of DataFrames, self.df (a reference),         *)
(* self.execution_log, self.id_columns, self._original_row_count (-1 while *)
(* the attribute does not exist), and the exception a method ends with.    *)
(***************************************************************************)
Cur(e)        == e.heap[e.df]
\* write the object self.df refers to
SetCur(e, d)  == [e EXCEPT !.heap[e.df] = d]
\* self.df = <a new object>
Rebind(e, d)  == [e EXCEPT !.heap = Append(@, d), !.df = Len(e.heap) + 1]
Raise(e, exc) == [e EXCEPT !.exc = exc]
Logged(e, column, fix, values_changed) ==
    [e EXCEPT !.log = Append(@, LogEntry(column, fix.fix_label, values_changed))]

\* _detect_id_columns, for one column
IsIdColumn(d, c) ==
    /\ Contains(StrLower(c), N_id)
    /\ \A i \in 1..NRows(d) : IsNum(ToNumeric(d.rows[i][c]))
    /\ LET vals2 == {Twice(ToNumeric(d.rows[i][c])) : i \in 1..NRows(d)}
           sorted_vals2 == SortedInts(vals2)
           k == Len(sorted_vals2)
       IN /\ k > 1
          \* np.mean(gaps) <= 2, the gaps summing to the last minus the first
          /\ sorted_vals2[k] - sorted_vals2[1] <= 2 * 2 * (k - 1)

detect_id_columns(d) ==
    FilterSeq(d.cols, {i \in 1..Len(d.cols) : IsIdColumn(d, d.cols[i])})

RECURSIVE ResetEach(_, _)
ResetEach(e, ids) ==
    IF ids = <<>> THEN e
    ELSE LET d  == Cur(e)
             e1 == SetCur(e, SetCol(d, Head(ids), [i \in 1..NRows(d) |-> Num(i)]))
             e2 == [e1 EXCEPT !.log =
                       Append(@, LogEntry(Head(ids), ResetLabel, VText("All IDs")))]
         IN ResetEach(e2, Tail(ids))

\* the identifier columns left as the removal of rows left them
reset_id_columns_skipped(e) == e

reset_id_columns(e) == ResetEach(e, e.ids)

\* `if before_rows != after_rows: self._reset_id_columns()`
ResetIfChanged(e, before_rows) ==
    IF before_rows # NRows(Cur(e)) THEN reset_id_columns(e) ELSE e

\* the common end of the row-removing methods
RowsRemoved(e, before_rows, column, fix) ==
    LET e1 == ResetIfChanged(e, before_rows)
    IN Logged(e1, column, fix, VRows(before_rows - NRows(Cur(e1))))

(***************************************************************************)
(* FixingEngine/FixExecutor.py: missing values.                            *)
(***************************************************************************)
Fillna(d, c, val) == MapCol(d, c, LAMBDA x : IF IsNa(x) THEN val ELSE x)

\* fillna with the statistic of the metadata; int(round(None)) and
\* fillna(None) raise
ImputeWith(e, fix, val) ==
    LET d == Cur(e)
        column == fix.column
    IN IF ~HasCol(d, column) THEN Raise(e, "KeyError")
       ELSE IF fix.metadata.round_to_int /\ ~IsNum(val) THEN Raise(e, "TypeError")
       ELSE IF val = None THEN Raise(e, "ValueError")
       ELSE Logged(SetCur(e, Fillna(d, column,
                                    IF fix.metadata.round_to_int THEN IntRound(val) ELSE val)),
                   column, fix, VCount(CountIf(d, column, IsNa)))

apply_median_impute(e, fix) == ImputeWith(e, fix, fix.metadata.median_value)

apply_mean_impute(e, fix) == ImputeWith(e, fix, fix.metadata.mean_value)

apply_mode_impute(e, fix) ==
    LET d == Cur(e)
        column == fix.column
        mode_val == fix.metadata.mode_value
    IN IF ~HasCol(d, column) THEN Raise(e, "KeyError")
       ELSE IF IsNumericDtype(d, column) THEN e
       ELSE IF mode_val = None THEN Raise(e, "ValueError")
       ELSE Logged(SetCur(e, Fillna(d, column, mode_val)), column, fix,
                   VCount(CountIf(d, column, IsNa)))

apply_drop_column(e, fix) ==
    LET d == Cur(e)
        column == fix.column
    IN IF ~HasCol(d, column) THEN Raise(e, "KeyError")
       ELSE Logged(SetCur(e, DropCol(d, column)), column, fix,
                   VText("Column dropped"))

\* _should_skip_row_drop: data_loss_pct > 50, of the rows lost so far
should_skip_row_drop(e, current_rows) ==
    LET original_rows == IF e.orig = -1 THEN NRows(Cur(e)) ELSE e.orig
    IN (original_rows - current_rows) * 100 > 50 * original_rows

\* drop_pct > 30
DropPctOver30(rows_to_drop, before_rows) ==
    before_rows > 0 /\ rows_to_drop * 100 > 30 * before_rows

apply_drop_rows(e, fix) ==
    LET d == Cur(e)
        column == fix.column
        before_rows == NRows(d)
    IN \* original_rows = 0 divides by zero
       IF (IF e.orig = -1 THEN before_rows ELSE e.orig) = 0
       THEN Raise(e, "ZeroDivisionError")
       ELSE IF should_skip_row_drop(e, before_rows) THEN e
       ELSE IF ~HasCol(d, column) THEN Raise(e, "KeyError")
       ELSE IF DropPctOver30(CountIf(d, column, IsNa), before_rows) THEN e
       ELSE RowsRemoved(
               SetCur(e, KeepRows(d, {i \in 1..before_rows : ~IsNa(d.rows[i][column])})),
               before_rows, column, fix)

RECURSIVE FfillFrom(_, _)
\* fillna(method='ffill') of a sequence of cells, last being the value carried
FfillFrom(cells, last) ==
    IF cells = <<>> THEN <<>>
    ELSE LET x == IF IsNa(Head(cells)) THEN last ELSE Head(cells)
         IN <<x>> \o FfillFrom(Tail(cells), x)

apply_forward_fill(e, fix) ==
    LET d == Cur(e)
        column == fix.column
    IN IF ~HasCol(d, column) THEN Raise(e, "KeyError")
       ELSE Logged(SetCur(e, SetCol(d, column, FfillFrom(Column(d, column), NaN))),
                   column, fix, VCount(CountIf(d, column, IsNa)))

(***************************************************************************)
(* Numeric validity, type mismatch, domain validation.                     *)
(***************************************************************************)
\* numeric_col = pd.to_numeric(df[column], errors='coerce'); df[column] =
\* numeric_col; df.loc[Bad(numeric_col), column] = val
CoerceAndReplace(d, column, Bad(_), val) ==
    MapCol(d, column,
           LAMBDA x : LET y == ToNumeric(x)
                      IN IF IsNum(y) /\ Bad(y) THEN val ELSE y)

CountBad(d, column, Bad(_)) ==
    CountIf(d, column, LAMBDA x : IsNum(ToNumeric(x)) /\ Bad(ToNumeric(x)))

NumericFix(e, fix, Bad(_), val) ==
    LET d == Cur(e)
        column == fix.column
    IN IF ~HasCol(d, column) THEN Raise(e, "KeyError")
       ELSE Logged(SetCur(e, CoerceAndReplace(d, column, Bad, val)), column, fix,
                   VCount(CountBad(d, column, Bad)))

IsNegative(y)      == Lt(y, 0)
IsOver100(y)       == Gt(y, 100)
IsImpossibleAge(y) == Gt(y, 120) \/ Lt(y, 0)
IsNonPositive(y)   == Le(y, 0)

apply_negative_to_abs(e, fix) ==
    LET d == Cur(e)
        column == fix.column
    IN IF ~HasCol(d, column) THEN Raise(e, "KeyError")
       ELSE Logged(SetCur(e, MapCol(d, column,
                        LAMBDA x : LET y == ToNumeric(x)
                                   IN IF IsNum(y) THEN OfTwice(Abs(Twice(y))) ELSE y)),
                   column, fix, VCount(CountBad(d, column, IsNegative)))

\* pd.isna(median_val) -> the fallback, else int(round(median_val))
MedianOr(median_val, fallback) ==
    IF IsNum(median_val) THEN IntRound(median_val) ELSE Num(fallback)

apply_negative_to_median(e, fix) ==
    NumericFix(e, fix, IsNegative, MedianOr(fix.metadata.median_value, 0))

apply_negative_to_nan(e, fix) == NumericFix(e, fix, IsNegative, NaN)

apply_cap_at_100(e, fix) == NumericFix(e, fix, IsOver100, Num(100))

apply_range_to_nan(e, fix) == NumericFix(e, fix, IsOver100, NaN)

apply_impossible_age_to_median(e, fix) ==
    NumericFix(e, fix, IsImpossibleAge, MedianOr(fix.metadata.median_value, 30))

apply_impossible_age_to_nan(e, fix) == NumericFix(e, fix, IsImpossibleAge, NaN)

apply_zero_monetary_to_nan(e, fix) == NumericFix(e, fix, IsNonPositive, NaN)

\* self.df = self.df[~Bad(numeric_col)]
DropBadRows(e, fix, Bad(_)) ==
    LET d == Cur(e)
        column == fix.column
        before_rows == NRows(d)
        keep == {i \in 1..before_rows :
                    LET y == ToNumeric(d.rows[i][column])
                    IN ~(IsNum(y) /\ Bad(y))}
    IN IF ~HasCol(d, column) THEN Raise(e, "KeyError")
       ELSE RowsRemoved(Rebind(e, KeepRows(d, keep)), before_rows, column, fix)

apply_drop_impossible_age_rows(e, fix) == DropBadRows(e, fix, IsImpossibleAge)

apply_drop_zero_monetary_rows(e, fix) == DropBadRows(e, fix, IsNonPositive)

\* TypeMismatchStrategy.WORD_TO_NUM, as pairs <<word, number>>
WORD_TO_NUM ==
    {<<<<"z","e","r","o">>, 0>>,
     <<<<"o","n","e">>, 1>>,
     <<<<"t","w","o">>, 2>>,
     <<<<"t","h","r","e","e">>, 3>>,
     <<<<"f","o","u","r">>, 4>>,
     <<<<"f","i","v","e">>, 5>>,
     <<<<"s","i","x">>, 6>>,
     <<<<"s","e","v","e","n">>, 7>>,
     <<<<"e","i","g","h","t">>, 8>>,
     <<<<"n","i","n","e">>, 9>>,
     <<<<"t","e","n">>, 10>>,
     <<<<"e","l","e","v","e","n">>, 11>>,
     <<<<"t","w","e","l","v","e">>, 12>>,
     <<<<"t","h","i","r","t","e","e","n">>, 13>>,
     <<<<"f","o","u","r","t","e","e","n">>, 14>>,
     <<<<"f","i","f","t","e","e","n">>, 15>>,
     <<<<"s","i","x","t","e","e","n">>, 16>>,
     <<<<"s","e","v","e","n","t","e","e","n">>, 17>>,
     <<<<"e","i","g","h","t","e","e","n">>, 18>>,
     <<<<"n","i","n","e","t","e","e","n">>, 19>>,
     <<<<"t","w","e","n","t","y">>, 20>>,
     <<<<"t","h","i","r","t","y">>, 30>>,
     <<<<"f","o","r","t","y">>, 40>>,
     <<<<"f","i","f","t","y">>, 50>>,
     <<<<"s","i","x","t","y">>, 60>>,
     <<<<"s","e","v","e","n","t","y">>, 70>>,
     <<<<"e","i","g","h","t","y">>, 80>>,
     <<<<"n","i","n","e","t","y">>, 90>>,
     <<<<"h","u","n","d","r","e","d">>, 100>>,
     <<<<"t","h","o","u","s","a","n","d">>, 1000>>}

WordKnown(w) == \E pr \in WORD_TO_NUM : pr[1] = w
WordValue(w) == (CHOOSE pr \in WORD_TO_NUM : pr[1] = w)[2]

\* convert_word
convert_word(val) ==
    IF IsNa(val) THEN val
    ELSE LET val_str == StrStrip(StrLower(AsStr(val)))
         IN IF WordKnown(val_str) THEN Num(WordValue(val_str)) ELSE val

apply_word_to_number(e, fix) ==
    LET d == Cur(e)
        column == fix.column
    IN IF ~HasCol(d, column) THEN Raise(e, "KeyError")
       ELSE Logged(SetCur(e, MapCol(d, column, LAMBDA x : ToNumeric(convert_word(x)))),
                   column, fix,
                   VCount(CountIf(d, column, LAMBDA x : HasAlpha(AsStr(x)))))

\* the column is coerced before fillna is called, so that a fillna that
\* raises leaves the coerced column behind
apply_text_to_nan_impute(e, fix) ==
    LET d == Cur(e)
        column == fix.column
        median_val == fix.metadata.median_value
        coerced == MapCol(d, column, ToNumeric)
    IN IF ~HasCol(d, column) THEN Raise(e, "KeyError")
       ELSE IF median_val = None THEN Raise(SetCur(e, coerced), "ValueError")
       ELSE Logged(SetCur(e, Fillna(coerced, column, median_val)), column, fix,
                   VCount(CountIf(coerced, column, IsNa)))

(***************************************************************************)
(* Outliers.                                                               *)
(***************************************************************************)
\* numeric_col < lo, numeric_col > hi between numbers; a NaN bound compares
\* False
Below(y, lo) == IsNum(lo) /\ Twice(y) < Twice(lo)
Above(y, hi) == IsNum(hi) /\ Twice(y) > Twice(hi)

\* the two .loc assignments, the lower bound first
Clip(y, lo, hi) ==
    LET z == IF Below(y, lo) THEN lo ELSE y
    IN IF Above(z, hi) THEN hi ELSE z

CapBetween(e, fix, lo, hi) ==
    LET d == Cur(e)
        column == fix.column
    IN IF ~HasCol(d, column) THEN Raise(e, "KeyError")
       \* a comparison of the column with None
       ELSE IF lo = None \/ hi = None THEN Raise(e, "TypeError")
       ELSE Logged(
               SetCur(e, MapCol(d, column,
                    LAMBDA x : LET y == ToNumeric(x)
                               IN IF IsNum(y) THEN Clip(y, lo, hi) ELSE y)),
               column, fix,
               VCount(CountIf(d, column,
                    LAMBDA x : LET y == ToNumeric(x)
                               IN IsNum(y) /\ (Below(y, lo) \/ Above(y, hi)))))

apply_cap_percentile(e, fix) == CapBetween(e, fix, fix.metadata.p1, fix.metadata.p99)

apply_cap_iqr(e, fix) ==
    CapBetween(e, fix, fix.metadata.lower_bound, fix.metadata.upper_bound)

\* z_scores <= 3 for the value w of a column whose numeric values are vals
\* (all doubled, which leaves a z-score as it is): with n values of sum S and
\* Q the sum of the (n w_i - S)^2, std^2 = Q / (n^2 (n - 1)) and
\* |w - S/n| <= 3 std is (n w - S)^2 (n - 1) <= 9 Q
SumSqDev(vals) ==
    LET n == Len(vals)
        S == SumSeq(vals)
    IN SumSeq([i \in 1..n |-> (n * vals[i] - S) * (n * vals[i] - S)])

ZWithin3(w, vals) ==
    LET n == Len(vals)
        S == SumSeq(vals)
    IN (n * w - S) * (n * w - S) * (n - 1) <= 9 * SumSqDev(vals)

\* std_val > 0: at least two values, not all equal
StdPositive(vals) == Len(vals) >= 2 /\ SumSqDev(vals) > 0

\* the rows of a null z-score fail `z_scores <= 3` and go with the outliers
apply_remove_outliers(e, fix) ==
    LET d == Cur(e)
        column == fix.column
        vals == NumericValues2(d, column)
        before_rows == NRows(d)
        keep == {i \in 1..before_rows :
                    LET y == ToNumeric(d.rows[i][column])
                    IN IsNum(y) /\ ZWithin3(Twice(y), vals)}
    IN IF ~HasCol(d, column) THEN Raise(e, "KeyError")
       ELSE IF StdPositive(vals)
       THEN RowsRemoved(Rebind(e, KeepRows(d, keep)), before_rows, column, fix)
       ELSE RowsRemoved(e, before_rows, column, fix)

(***************************************************************************)
(* Duplicates.                                                             *)
(***************************************************************************)
\* drop_duplicates(keep='first') under a key of the rows: the places of the
\* rows that no earlier row matches
FirstOccurrences(rows, Key(_)) ==
    {i \in 1..Len(rows) : \A j \in 1..(i - 1) : Key(rows[j]) # Key(rows[i])}

\* drop_duplicates(keep='last') in the place of keep='first'
apply_keep_first_id_last(e, fix) ==
    LET d == Cur(e)
        column == fix.column
        before_rows == NRows(d)
    IN IF ~HasCol(d, column) THEN Raise(e, "KeyError")
       ELSE RowsRemoved(
               SetCur(e, KeepRows(d, {i \in 1..NRows(d) :
                   \A j \in (i + 1)..NRows(d) :
                       d.rows[j][column] # d.rows[i][column]})),
               before_rows, column, fix)

apply_keep_first_id(e, fix) ==
    LET d == Cur(e)
        column == fix.column
        before_rows == NRows(d)
    IN IF ~HasCol(d, column) THEN Raise(e, "KeyError")
       ELSE RowsRemoved(
               SetCur(e, KeepRows(d, FirstOccurrences(d.rows, LAMBDA r : r[column]))),
               before_rows, column, fix)

apply_drop_exact_duplicates(e, fix) ==
    LET d == Cur(e)
    IN RowsRemoved(SetCur(e, KeepRows(d, FirstOccurrences(d.rows, LAMBDA r : r))),
                   NRows(d), N_all, fix)

(***************************************************************************)
(* Text cleaning.                                                          *)
(***************************************************************************)
\* characters outside \x00-\x7F
NonAsciiChars == {"é", "ñ"}

\* the tokens of _apply_proxy_to_nan
ProxyTokens == {<<"?">>, <<"u","n","k","n","o","w","n">>, <<"n","/","a">>,
                <<"n","o","n","e">>, <<"n","u","l","l">>, <<".">>}

\* ['', 'nan', 'NaN', 'None', 'NONE']
EmptyTexts == {<<>>, <<"n","a","n">>, <<"N","a","N">>, <<"N","o","n","e">>, <<"N","O","N","E">>}

\* df[column] = df[column].astype(str).<F>, with the count of the cells whose
\* text matches Hit
TextFix(e, fix, F(_), Hit(_)) ==
    LET d == Cur(e)
        column == fix.column
    IN IF ~HasCol(d, column) THEN Raise(e, "KeyError")
       ELSE Logged(SetCur(e, MapCol(d, column, LAMBDA x : Str(F(AsStr(x))))),
                   column, fix,
                   VCount(CountIf(d, column, LAMBDA x : Hit(AsStr(x)))))

apply_strip_whitespace(e, fix) == TextFix(e, fix, StrStrip, HasEdgeSpace)

apply_remove_non_ascii(e, fix) ==
    TextFix(e, fix, LAMBDA s : RemoveChars(s, NonAsciiChars),
                    LAMBDA s : HasCharIn(s, NonAsciiChars))

apply_standardize_case_lower(e, fix) ==
    LET d == Cur(e)
        column == fix.column
    IN IF ~HasCol(d, column) THEN Raise(e, "KeyError")
       ELSE Logged(SetCur(e, MapCol(d, column, LAMBDA x : Str(StrLower(AsStr(x))))),
                   column, fix, VText("All values"))

\* df.loc[Mask(astype(str)), column] = val
MaskedSet(e, fix, Mask(_), val) ==
    LET d == Cur(e)
        column == fix.column
    IN IF ~HasCol(d, column) THEN Raise(e, "KeyError")
       ELSE Logged(SetCur(e, MapCol(d, column,
                                    LAMBDA x : IF Mask(AsStr(x)) THEN val ELSE x)),
                   column, fix,
                   VCount(CountIf(d, column, LAMBDA x : Mask(AsStr(x)))))

IsProxy(s) == StrStrip(StrLower(s)) \in ProxyTokens

IsEmptyText(s) == StrStrip(s) \in EmptyTexts

apply_proxy_to_nan(e, fix) == MaskedSet(e, fix, IsProxy, NaN)

\* the text without the first of its characters of the class
RemoveFirstIn(s, class) ==
    IF \A i \in 1..Len(s) : s[i] \notin class THEN s
    ELSE LET k == CHOOSE i \in 1..Len(s) :
                     s[i] \in class /\ \A j \in 1..(i - 1) : s[j] \notin class
         IN SubSeq(s, 1, k - 1) \o SubSeq(s, k + 1, Len(s))

\* str.replace(r'[?!@#$%^&*]', '', n=1, regex=True): one character a call
apply_remove_special_chars_once(e, fix) ==
    TextFix(e, fix, LAMBDA s : RemoveFirstIn(s, SpecialChars),
                    LAMBDA s : HasCharIn(s, SpecialChars))

apply_remove_special_chars(e, fix) ==
    TextFix(e, fix, LAMBDA s : RemoveChars(s, SpecialChars),
                    LAMBDA s : HasCharIn(s, SpecialChars))

RECURSIVE CollapseSpaces(_)
\* str.replace(r'\s+', ' ', regex=True)
CollapseSpaces(s) ==
    IF Len(s) < 2 THEN s
    ELSE IF s[1] \in SpaceChars /\ s[2] \in SpaceChars THEN CollapseSpaces(Tail(s))
    ELSE <<s[1]>> \o CollapseSpaces(Tail(s))

SpecialToSpace(s) == [i \in 1..Len(s) |-> IF s[i] \in SpecialChars THEN " " ELSE s[i]]

apply_replace_special_with_space(e, fix) ==
    TextFix(e, fix, LAMBDA s : StrStrip(CollapseSpaces(SpecialToSpace(s))),
                    LAMBDA s : HasCharIn(s, SpecialChars))

\* a None written into a column is a null cell
AsCell(val) == IF val = None THEN NaN ELSE val

apply_empty_text_to_mode(e, fix) ==
    LET d == Cur(e)
    IN IF ~HasCol(d, fix.column) THEN Raise(e, "KeyError")
       ELSE IF IsNumericDtype(d, fix.column) THEN e
       ELSE MaskedSet(e, fix, IsEmptyText, AsCell(fix.metadata.mode_value))

apply_empty_text_to_nan(e, fix) == MaskedSet(e, fix, IsEmptyText, NaN)

(***************************************************************************)
(* Non-positive monetary values to the median of the positive ones, which  *)
(* the method computes itself.                                             *)
(***************************************************************************)
\* the median of a non-empty sequence of doubled values, as a number.  The
\* mean of the two middle values is exact in halves when they are integers.
MedianOf2(vals) ==
    LET srt == SortAsc(vals)
        n == Len(srt)
    IN IF n % 2 = 1 THEN OfTwice(srt[(n + 1) \div 2])
       ELSE OfTwice((srt[n \div 2] + srt[n \div 2 + 1]) \div 2)

\* pd.to_numeric alone, the commas left in the text
MoneyToNumeric_with_commas(x) == ToNumeric(x)

\* astype(str).str.replace(",", "") and pd.to_numeric
MoneyToNumeric(x) == ToNumeric(Str(RemoveChars(AsStr(x), {","})))

\* numeric_col[numeric_col > 0].median(), NaN when there is no such value
ValidMedian(positive) ==
    IF positive = <<>> THEN NaN
    ELSE MedianOf2([i \in 1..Len(positive) |-> Twice(positive[i])])

PositiveOf(numeric_col) ==
    FilterSeq(numeric_col,
              {i \in 1..Len(numeric_col) : IsNum(numeric_col[i]) /\ Gt(numeric_col[i], 0)})

NonPositiveIn(numeric_col) ==
    {i \in 1..Len(numeric_col) : IsNum(numeric_col[i]) /\ Le(numeric_col[i], 0)}

\* df[column] = numeric_col; df.loc[df[column] <= 0, column] = valid_median
MonetaryWrite(e, fix, numeric_col, bad, valid_median) ==
    Logged(SetCur(e, SetCol(Cur(e), fix.column,
                [i \in 1..Len(numeric_col) |->
                    IF i \in bad THEN valid_median ELSE numeric_col[i]])),
           fix.column, fix, VCount(Cardinality(bad)))

MonetaryFix(e, fix, numeric_col) ==
    MonetaryWrite(e, fix, numeric_col, NonPositiveIn(numeric_col),
                  ValidMedian(PositiveOf(numeric_col)))

apply_zero_monetary_to_median(e, fix) ==
    IF ~HasCol(Cur(e), fix.column) THEN Raise(e, "KeyError")
    ELSE MonetaryFix(e, fix,
                     [i \in 1..NRows(Cur(e)) |->
                         MoneyToNumeric(Cur(e).rows[i][fix.column])])

(***************************************************************************)
(* Dates.  A date text is three groups of digits around one separator; a   *)
(* format gives the order of the groups and the separator.                 *)
(***************************************************************************)
Fmt(order, sep) == [order |-> order, sep |-> sep]

\* date_formats of _apply_standardize_date_format, after the leading None
date_formats ==
    <<Fmt("YMD", "-"), Fmt("MDY", "/"), Fmt("DMY", "/"), Fmt("YMD", "."),
      Fmt("DMY", "."), Fmt("YMD", "/"), Fmt("DMY", "-"), Fmt("MDY", "-")>>

NaT == [ok |-> FALSE, y |-> 0, m |-> 0, d |-> 0]
Date(y, m, d) == [ok |-> TRUE, y |-> y, m |-> m, d |-> d]

RECURSIVE SplitOn(_, _)
\* str.split(sep)
SplitOn(s, sep) ==
    IF \A i \in 1..Len(s) : s[i] # sep THEN <<s>>
    ELSE LET k == CHOOSE i \in 1..Len(s) : s[i] = sep /\ \A j \in 1..(i - 1) : s[j] # sep
         IN <<SubSeq(s, 1, k - 1)>> \o SplitOn(SubSeq(s, k + 1, Len(s)), sep)

IsLeap(y) == (y % 4 = 0 /\ y % 100 # 0) \/ y % 400 = 0

DaysIn(y, m) ==
    CASE m \in {4, 6, 9, 11} -> 30
      [] m = 2 -> IF IsLeap(y) THEN 29 ELSE 28
      [] OTHER -> 31

ValidDate(y, m, d) ==
    IF y >= 1 /\ m \in 1..12 /\ d \in 1..DaysIn(y, m) THEN Date(y, m, d) ELSE NaT

\* %Y is four digits, %m and %d one or two
FieldsDate(yf, mf, df) ==
    IF Len(yf) = 4 /\ Len(mf) \in {1, 2} /\ Len(df) \in {1, 2}
    THEN ValidDate(DigitsValue(yf), DigitsValue(mf), DigitsValue(df))
    ELSE NaT

\* the places of the year, the month and the day among the three groups
FieldPlaces(order) ==
    CASE order = "YMD" -> <<1, 2, 3>>
      [] order = "MDY" -> <<3, 1, 2>>
      [] OTHER         -> <<3, 2, 1>>

ParseGroups(f, at) ==
    IF Len(f) = 3 /\ \A i \in 1..Len(f) : IsDigits(f[i])
    THEN FieldsDate(f[at[1]], f[at[2]], f[at[3]])
    ELSE NaT

\* strptime with one format
ParseFmt(s, fmt) == ParseGroups(SplitOn(s, fmt.sep), FieldPlaces(fmt.order))

\* the formats that the inference of pd.to_datetime tries on a text, month
\* before day
GuessOrder ==
    <<Fmt("YMD", "-"), Fmt("YMD", "/"), Fmt("YMD", "."),
      Fmt("MDY", "-"), Fmt("MDY", "/"), Fmt("MDY", "."),
      Fmt("DMY", "-"), Fmt("DMY", "/"), Fmt("DMY", ".")>>

\* the place of the first parse that succeeded, 0 when none did
FirstOk(parses) ==
    IF \A i \in 1..Len(parses) : ~parses[i].ok THEN 0
    ELSE CHOOSE i \in 1..Len(parses) :
            parses[i].ok /\ \A j \in 1..(i - 1) : ~parses[j].ok

\* the format inferred from a text, as a place in GuessOrder, 0 when none is
GuessFormat(s) == FirstOk([i \in 1..Len(GuessOrder) |-> ParseFmt(s, GuessOrder[i])])

\* the parse of one text under the format g it was given, or on its own
\* when g = 0
ParseWith(s, g) == IF g > 0 THEN ParseFmt(s, GuessOrder[g]) ELSE NaT

ParseUnder(s, g) == ParseWith(s, IF g > 0 THEN g ELSE GuessFormat(s))

Epoch == Date(1970, 1, 1)

FirstNonNull(cells) ==
    IF \A i \in 1..Len(cells) : IsNa(cells[i]) THEN 0
    ELSE CHOOSE i \in 1..Len(cells) :
            ~IsNa(cells[i]) /\ \A j \in 1..(i - 1) : IsNa(cells[j])

InferredFormat(cells, k) ==
    IF k > 0 /\ IsStr(cells[k]) THEN GuessFormat(cells[k].s) ELSE 0

ToDatetimeUnder(cells, g) ==
    [i \in 1..Len(cells) |->
        CASE IsNa(cells[i])  -> NaT
          [] IsNum(cells[i]) -> Epoch
          [] OTHER -> ParseUnder(cells[i].s, g)]

\* pd.to_datetime(cells, errors='coerce'): the format is inferred from the
\* first non-null value and then required of every value; when none can be
\* inferred each value is parsed on its own.  A number is an epoch offset.
ToDatetime(cells) == ToDatetimeUnder(cells, InferredFormat(cells, FirstNonNull(cells)))

\* pd.to_datetime(cells, format=fmt, errors='coerce')
ToDatetimeFmt(cells, fmt) ==
    [i \in 1..Len(cells) |->
        IF IsStr(cells[i]) THEN ParseFmt(cells[i].s, fmt) ELSE NaT]

Pad(n, width) ==
    LET s == NatStr(n)
    IN [i \in 1..(width - Len(s)) |-> "0"] \o s

\* strftime('%Y-%m-%d')
Strftime(t) == Pad(t.y, 4) \o <<"-">> \o Pad(t.m, 2) \o <<"-">> \o Pad(t.d, 2)

\* invalid_mask = parsed_dates.isna() & df[column].notna()
InvalidMask(cells, parsed_dates) ==
    {i \in 1..Len(cells) : ~parsed_dates[i].ok /\ ~IsNa(cells[i])}

InvalidDateMask(d, column) ==
    InvalidMask(Column(d, column), ToDatetime(Column(d, column)))

\* df.loc[invalid_mask, column] = val
SetWhere(e, fix, invalid_mask, val, values_changed(_)) ==
    Logged(SetCur(e, SetCol(Cur(e), fix.column,
                [i \in 1..NRows(Cur(e)) |->
                    IF i \in invalid_mask THEN val ELSE Cur(e).rows[i][fix.column]])),
           fix.column, fix, values_changed(Cardinality(invalid_mask)))

InvalidDateSet(e, fix, val, values_changed(_)) ==
    IF ~HasCol(Cur(e), fix.column) THEN Raise(e, "KeyError")
    ELSE SetWhere(e, fix, InvalidDateMask(Cur(e), fix.column), val, values_changed)

apply_invalid_date_to_nan(e, fix) == InvalidDateSet(e, fix, NaN, VCount)

apply_drop_invalid_date_rows(e, fix) ==
    LET d == Cur(e)
        column == fix.column
    IN IF ~HasCol(d, column) THEN Raise(e, "KeyError")
       ELSE RowsRemoved(
               Rebind(e, KeepRows(d, (1..NRows(d)) \ InvalidDateMask(d, column))),
               NRows(d), column, fix)

W_1900 == <<"1","9","0","0","-","0","1","-","0","1">>

apply_invalid_date_default(e, fix) ==
    InvalidDateSet(e, fix,
                   IF fix.metadata.default_date = None THEN Str(W_1900)
                   ELSE fix.metadata.default_date,
                   VCount)

apply_invalid_date_impute_median(e, fix) ==
    InvalidDateSet(e, fix, AsCell(fix.metadata.median_date),
                   LAMBDA n : [t |-> "dates imputed with median", n |-> n])

\* one format tried on the values not parsed yet, taken together
TryFormat(sub, fmt) ==
    IF fmt.order = "None" THEN ToDatetime(sub) ELSE ToDatetimeFmt(sub, fmt)

\* result_dates.loc[unparsed_mask & successfully_parsed] = temp[...]
MergeParsed(result, unparsed, temp) ==
    [i \in 1..Len(result) |->
        IF i \in unparsed /\ temp[Cardinality({j \in unparsed : j <= i})].ok
        THEN temp[Cardinality({j \in unparsed : j <= i})]
        ELSE result[i]]

\* unparsed_mask = result_dates.isna() & df[column].notna()
Unparsed(cells, result) == {i \in 1..Len(cells) : ~result[i].ok /\ ~IsNa(cells[i])}

RECURSIVE StdDates(_, _, _)
RECURSIVE StdTry(_, _, _, _)
\* the loop over the formats: result holds the dates parsed so far
StdDates(cells, result, fmts) ==
    IF fmts = <<>> THEN result
    ELSE StdTry(cells, result, fmts, Unparsed(cells, result))

StdTry(cells, result, fmts, unparsed) ==
    IF unparsed = {} THEN result
    ELSE StdDates(cells,
                  MergeParsed(result, unparsed,
                              TryFormat(FilterSeq(cells, unparsed), Head(fmts))),
                  Tail(fmts))

\* df.loc[successfully_parsed_mask, column] = result_dates.dt.strftime(...)
WriteDates(e, fix, cells, result_dates) ==
    Logged(SetCur(e, SetCol(Cur(e), fix.column,
                [i \in 1..Len(cells) |->
                    IF result_dates[i].ok THEN Str(Strftime(result_dates[i]))
                    ELSE cells[i]])),
           fix.column, fix,
           [t |-> "dates standardized to YYYY-MM-DD",
            n |-> Cardinality({i \in 1..Len(cells) : result_dates[i].ok})])

StandardizeColumn(e, fix, cells) ==
    WriteDates(e, fix, cells,
               StdDates(cells, [i \in 1..Len(cells) |-> NaT],
                        <<Fmt("None", "")>> \o date_formats))

apply_standardize_date_format(e, fix) ==
    IF ~HasCol(Cur(e), fix.column) THEN Raise(e, "KeyError")
    ELSE StandardizeColumn(e, fix, Column(Cur(e), fix.column))

(***************************************************************************)
(* apply_recommended_fixes.                                                *)
(***************************************************************************)
\* priority_map of get_fix_priority, as pairs <<fix_id, class>>
priority_map ==
    {<<"FIX_STRIP_WHITESPACE", 1>>,
     <<"FIX_REMOVE_SPECIAL_CHARS", 1>>,
     <<"FIX_REPLACE_SPECIAL_WITH_SPACE", 1>>,
     <<"FIX_REMOVE_NON_ASCII", 1>>,
     <<"FIX_STANDARDIZE_DATE_FORMAT", 2>>,
     <<"FIX_WORD_TO_NUMBER", 3>>,
     <<"FIX_PROXY_TO_NAN", 4>>,
     <<"FIX_EMPTY_TEXT_TO_NAN", 4>>,
     <<"FIX_INVALID_DATE_TO_NAN", 5>>,
     <<"FIX_INVALID_DATE_IMPUTE_MEDIAN", 5>>,
     <<"FIX_NEGATIVE_TO_MEDIAN", 6>>,
     <<"FIX_NEGATIVE_TO_ABS", 6>>,
     <<"FIX_CAP_AT_100", 6>>,
     <<"FIX_IMPOSSIBLE_AGE_TO_MEDIAN", 6>>,
     <<"FIX_ZERO_MONETARY_TO_MEDIAN", 6>>,
     <<"FIX_MEDIAN_IMPUTE", 7>>,
     <<"FIX_MEAN_IMPUTE", 7>>,
     <<"FIX_MODE_IMPUTE", 7>>,
     <<"FIX_EMPTY_TEXT_TO_MODE", 7>>,
     <<"FIX_TEXT_TO_NAN_IMPUTE", 7>>,
     <<"FIX_KEEP_FIRST_ID", 8>>,
     <<"FIX_DROP_EXACT_DUPLICATES", 8>>}

DefaultPriority == 99

get_fix_priority(fix) ==
    IF \E pr \in priority_map : pr[1] = fix.fix_id
    THEN (CHOOSE pr \in priority_map : pr[1] = fix.fix_id)[2]
    ELSE DefaultPriority

RECURSIVE InsertByPriority(_, _)
\* fix goes after every fix of the sorted list whose class is not greater
InsertByPriority(sorted, fix) ==
    IF sorted = <<>> THEN <<fix>>
    ELSE IF get_fix_priority(Head(sorted)) <= get_fix_priority(fix)
    THEN <<Head(sorted)>> \o InsertByPriority(Tail(sorted), fix)
    ELSE <<fix>> \o sorted

RECURSIVE StableSort(_)
StableSort(fixes) ==
    IF fixes = <<>> THEN <<>>
    ELSE InsertByPriority(StableSort(SubSeq(fixes, 1, Len(fixes) - 1)),
                          fixes[Len(fixes)])

\* the list left in the order of the input
SortByPriority_unsorted(fixes) == fixes

\* recommended_fixes.sort(key=get_fix_priority): the sort of Python is stable
SortByPriority(fixes) == StableSort(fixes)

\* [fix for fix in all_fixes if fix.is_recommended]
Recommended(fixes) ==
    FilterSeq(fixes, {i \in 1..Len(fixes) : fixes[i].is_recommended})

\* the keys of fix_method_map
fix_method_map ==
    {"FIX_MEDIAN_IMPUTE", "FIX_MEAN_IMPUTE", "FIX_MODE_IMPUTE",
     "FIX_DROP_COLUMN", "FIX_DROP_ROWS", "FIX_FORWARD_FILL",
     "FIX_NEGATIVE_TO_ABS", "FIX_NEGATIVE_TO_MEDIAN", "FIX_NEGATIVE_TO_NAN",
     "FIX_CAP_AT_100", "FIX_RANGE_TO_NAN", "FIX_WORD_TO_NUMBER",
     "FIX_TEXT_TO_NAN_IMPUTE", "FIX_CAP_PERCENTILE", "FIX_CAP_IQR",
     "FIX_REMOVE_OUTLIERS", "FIX_KEEP_FIRST_ID", "FIX_DROP_EXACT_DUPLICATES",
     "FIX_STRIP_WHITESPACE", "FIX_REMOVE_NON_ASCII", "FIX_STANDARDIZE_CASE_LOWER",
     "FIX_PROXY_TO_NAN", "FIX_REMOVE_SPECIAL_CHARS", "FIX_REPLACE_SPECIAL_WITH_SPACE",
     "FIX_EMPTY_TEXT_TO_MODE", "FIX_EMPTY_TEXT_TO_NAN", "FIX_INVALID_DATE_TO_NAN",
     "FIX_DROP_INVALID_DATE_ROWS", "FIX_INVALID_DATE_DEFAULT", "FIX_INVALID_DATE_IMPUTE_MEDIAN",
     "FIX_IMPOSSIBLE_AGE_TO_MEDIAN", "FIX_IMPOSSIBLE_AGE_TO_NAN", "FIX_DROP_IMPOSSIBLE_AGE_ROWS",
     "FIX_ZERO_MONETARY_TO_MEDIAN", "FIX_ZERO_MONETARY_TO_NAN", "FIX_DROP_ZERO_MONETARY_ROWS",
     "FIX_STANDARDIZE_DATE_FORMAT"}

\* fix_method(fix)
fix_method(e, fix) ==
    CASE fix.fix_id = "FIX_MEDIAN_IMPUTE" -> apply_median_impute(e, fix)
      [] fix.fix_id = "FIX_MEAN_IMPUTE" -> apply_mean_impute(e, fix)
      [] fix.fix_id = "FIX_MODE_IMPUTE" -> apply_mode_impute(e, fix)
      [] fix.fix_id = "FIX_DROP_COLUMN" -> apply_drop_column(e, fix)
      [] fix.fix_id = "FIX_DROP_ROWS" -> apply_drop_rows(e, fix)
      [] fix.fix_id = "FIX_FORWARD_FILL" -> apply_forward_fill(e, fix)
      [] fix.fix_id = "FIX_NEGATIVE_TO_ABS" -> apply_negative_to_abs(e, fix)
      [] fix.fix_id = "FIX_NEGATIVE_TO_MEDIAN" -> apply_negative_to_median(e, fix)
      [] fix.fix_id = "FIX_NEGATIVE_TO_NAN" -> apply_negative_to_nan(e, fix)
      [] fix.fix_id = "FIX_CAP_AT_100" -> apply_cap_at_100(e, fix)
      [] fix.fix_id = "FIX_RANGE_TO_NAN" -> apply_range_to_nan(e, fix)
      [] fix.fix_id = "FIX_WORD_TO_NUMBER" -> apply_word_to_number(e, fix)
      [] fix.fix_id = "FIX_TEXT_TO_NAN_IMPUTE" -> apply_text_to_nan_impute(e, fix)
      [] fix.fix_id = "FIX_CAP_PERCENTILE" -> apply_cap_percentile(e, fix)
      [] fix.fix_id = "FIX_CAP_IQR" -> apply_cap_iqr(e, fix)
      [] fix.fix_id = "FIX_REMOVE_OUTLIERS" -> apply_remove_outliers(e, fix)
      [] fix.fix_id = "FIX_KEEP_FIRST_ID" -> apply_keep_first_id(e, fix)
      [] fix.fix_id = "FIX_DROP_EXACT_DUPLICATES" -> apply_drop_exact_duplicates(e, fix)
      [] fix.fix_id = "FIX_STRIP_WHITESPACE" -> apply_strip_whitespace(e, fix)
      [] fix.fix_id = "FIX_REMOVE_NON_ASCII" -> apply_remove_non_ascii(e, fix)
      [] fix.fix_id = "FIX_STANDARDIZE_CASE_LOWER" -> apply_standardize_case_lower(e, fix)
      [] fix.fix_id = "FIX_PROXY_TO_NAN" -> apply_proxy_to_nan(e, fix)
      [] fix.fix_id = "FIX_REMOVE_SPECIAL_CHARS" -> apply_remove_special_chars(e, fix)
      [] fix.fix_id = "FIX_REPLACE_SPECIAL_WITH_SPACE" -> apply_replace_special_with_space(e, fix)
      [] fix.fix_id = "FIX_EMPTY_TEXT_TO_MODE" -> apply_empty_text_to_mode(e, fix)
      [] fix.fix_id = "FIX_EMPTY_TEXT_TO_NAN" -> apply_empty_text_to_nan(e, fix)
      [] fix.fix_id = "FIX_INVALID_DATE_TO_NAN" -> apply_invalid_date_to_nan(e, fix)
      [] fix.fix_id = "FIX_DROP_INVALID_DATE_ROWS" -> apply_drop_invalid_date_rows(e, fix)
      [] fix.fix_id = "FIX_INVALID_DATE_DEFAULT" -> apply_invalid_date_default(e, fix)
      [] fix.fix_id = "FIX_INVALID_DATE_IMPUTE_MEDIAN" -> apply_invalid_date_impute_median(e, fix)
      [] fix.fix_id = "FIX_IMPOSSIBLE_AGE_TO_MEDIAN" -> apply_impossible_age_to_median(e, fix)
      [] fix.fix_id = "FIX_IMPOSSIBLE_AGE_TO_NAN" -> apply_impossible_age_to_nan(e, fix)
      [] fix.fix_id = "FIX_DROP_IMPOSSIBLE_AGE_ROWS" -> apply_drop_impossible_age_rows(e, fix)
      [] fix.fix_id = "FIX_ZERO_MONETARY_TO_MEDIAN" -> apply_zero_monetary_to_median(e, fix)
      [] fix.fix_id = "FIX_ZERO_MONETARY_TO_NAN" -> apply_zero_monetary_to_nan(e, fix)
      [] fix.fix_id = "FIX_DROP_ZERO_MONETARY_ROWS" -> apply_drop_zero_monetary_rows(e, fix)
      [] fix.fix_id = "FIX_STANDARDIZE_DATE_FORMAT" -> apply_standardize_date_format(e, fix)

(***************************************************************************)
(* The program state.                                                      *)
(***************************************************************************)
VARIABLES
    heap,                \* the DataFrame objects; the caller's dataset is heap[1]
    df,                  \* self.df of the executor: a reference, 0 before __init__
    execution_log,       \* self.execution_log
    id_columns,          \* self.id_columns
    original_row_count,  \* self._original_row_count, -1 while it is not set
    pc,                  \* where the caller is
    all_fixes,           \* the argument of apply_recommended_fixes
    recommended_fixes,   \* the sorted list that the loop goes through
    fix_idx,             \* the place of the loop in recommended_fixes
    attempts,            \* history: what the loop did with each fix
    entry_df,            \* history: the caller's dataset when the executor was built
    returned,            \* the value of the call, once it has returned
    issues,              \* self.issues of the controller
    issue_idx,           \* the place of the loop of run in issues
    metadata,            \* self.metadata: the metadata of the columns
    recommender_df,      \* self.df of the strategies: a reference, 0 before __init__
    offered,             \* history: what the recommender returned for each issue
    engine,              \* the IssueDetectionEngine: its column lists and self.issues
    check_idx,           \* the place of run_all_checks in its battery of checks
    detected_issues,     \* the value of run_all_checks, once it has returned
    report               \* the report of the ImpactAnalyzer, once it is made

vars == <<heap, df, execution_log, id_columns, original_row_count, pc,
          all_fixes, recommended_fixes, fix_idx, attempts, entry_df, returned,
          issues, issue_idx, metadata, recommender_df, offered,
          engine, check_idx, detected_issues, report>>

\* the state of the controller and of the recommender, and of the batch call
controller_vars == <<issues, issue_idx, metadata, recommender_df, offered>>
batch_vars == <<original_row_count, all_fixes, recommended_fixes, fix_idx>>
detection_vars == <<engine, check_idx, detected_issues>>
analysis_vars == <<report>>

\* before IssueDetectionEngine(df), and before run_all_checks returns
NoEngine ==
    [date_columns |-> <<>>, numeric_columns |-> <<>>, id_columns |-> <<>>,
     monetary_columns |-> <<>>, age_columns |-> <<>>, issues |-> <<>>]

NotDetected == [done |-> FALSE, issues |-> <<>>]

\* before generate_report
NoReport == [done |-> FALSE, completeness |-> [n |-> 0, d |-> 1],
             quality_score |-> [n |-> 0, d |-> 1]]

CallerRef == 1

\* the executor object as the methods take it
Self ==
    [heap |-> heap, df |-> df, log |-> execution_log, ids |-> id_columns,
     orig |-> original_row_count, exc |-> "none"]

NotReturned == [df |-> 0, log |-> <<>>]

(***************************************************************************)
(* Inputs of the batch runs.                                               *)
(***************************************************************************)
MaxRows  == 4
MaxFixes == 2

BatchCols == <<N_id, N_age, N_name>>

Row(id, age, name) ==
    [x \in Range(BatchCols) |->
        CASE x = N_id  -> id
          [] x = N_age -> age
          [] OTHER     -> name]

RowPool ==
    {Row(Num(1), Num(-5), Str(<<"A","l">>)),
     Row(Num(3), NaN,     Str(<<" ","?">>))}

RECURSIVE SeqsUpTo(_, _)
\* the sequences over S of length 0..n
SeqsUpTo(S, n) ==
    IF n = 0 THEN {<<>>}
    ELSE LET shorter == SeqsUpTo(S, n - 1)
         IN shorter \cup {Append(s, x) : s \in shorter, x \in S}

BatchDatasets == {[cols |-> BatchCols, rows |-> r] : r \in SeqsUpTo(RowPool, MaxRows)}

WithMedian(n) == [NoMetadata EXCEPT !.median_value = Num(n)]

FixPool ==
    {DataFix("FIX_STRIP_WHITESPACE", "WHITESPACE", N_name, TRUE, NoMetadata),
     DataFix("FIX_PROXY_TO_NAN", "PROXY_NULL", N_name, TRUE, NoMetadata),
     DataFix("FIX_NEGATIVE_TO_MEDIAN", "NEG_AGE", N_age, TRUE, WithMedian(25)),
     DataFix("FIX_MEDIAN_IMPUTE", "MISSING_DATA", N_age, TRUE, WithMedian(25)),
     \* no median in the metadata: fillna(None) raises
     DataFix("FIX_MEDIAN_IMPUTE", "MISSING_DATA", N_age, TRUE, NoMetadata),
     DataFix("FIX_KEEP_FIRST_ID", "DUPLICATE_ID", N_id, TRUE, NoMetadata),
     DataFix("FIX_DROP_ROWS", "MISSING_DATA", N_age, TRUE, NoMetadata),
     \* offered by the outlier strategy, not a key of fix_method_map
     DataFix("FIX_WINSORIZE", "OUTLIER", N_age, TRUE, NoMetadata),
     DataFix("FIX_DROP_COLUMN", "MISSING_DATA", N_id, FALSE, NoMetadata)}

FixLists == SeqsUpTo(FixPool, MaxFixes)

(***************************************************************************)
(* FixExecutor.__init__ and apply_recommended_fixes, step by step.         *)
(***************************************************************************)
\* self.df = df: the object of the caller itself
init_df_alias(h, ref) == [heap |-> h, df |-> ref]

\* self.df = df.copy(): a new object with the contents of the argument
init_df(h, ref) == [heap |-> Append(h, h[ref]), df |-> Len(h) + 1]

\* a loop without the try
Caught_never(exc) == FALSE

\* `except Exception` of the loop: every exception of a fix method is one
Caught(exc) == TRUE

Init ==
    /\ heap \in {<<d>> : d \in BatchDatasets}
    /\ df = 0
    /\ execution_log = <<>>
    /\ id_columns = <<>>
    /\ original_row_count = -1
    /\ pc = "caller"
    /\ all_fixes \in FixLists
    /\ recommended_fixes = <<>>
    /\ fix_idx = 0
    /\ attempts = <<>>
    /\ entry_df = heap[CallerRef]
    /\ returned = NotReturned
    /\ issues = <<>>
    /\ issue_idx = 0
    /\ metadata = <<>>
    /\ recommender_df = 0
    /\ offered = <<>>
    /\ engine = NoEngine
    /\ check_idx = 0
    /\ detected_issues = NotDetected
    /\ report = NoReport

\* executor = FixExecutor(df)
Construct ==
    /\ pc = "caller"
    /\ LET o == init_df(heap, CallerRef)
       IN /\ heap' = o.heap
          /\ df' = o.df
          /\ id_columns' = detect_id_columns(o.heap[o.df])
    /\ execution_log' = <<>>
    /\ pc' = "constructed"
    /\ UNCHANGED <<original_row_count, all_fixes, recommended_fixes, fix_idx,
                   attempts, entry_df, returned, controller_vars, detection_vars, analysis_vars>>

\* apply_recommended_fixes up to the loop
StartBatch ==
    /\ pc = "constructed"
    /\ original_row_count' = NRows(heap[df])
    /\ recommended_fixes' = SortByPriority(Recommended(all_fixes))
    /\ fix_idx' = 1
    /\ pc' = "loop"
    /\ UNCHANGED <<heap, df, execution_log, id_columns, all_fixes, attempts,
                   entry_df, returned, controller_vars, detection_vars, analysis_vars>>

\* one turn of the loop
ApplyNextFix ==
    /\ pc = "loop"
    /\ fix_idx <= Len(recommended_fixes)
    /\ LET fix == recommended_fixes[fix_idx]
           known == fix.fix_id \in fix_method_map
           r == IF known THEN fix_method(Self, fix) ELSE Self
       IN /\ heap' = r.heap
          /\ df' = r.df
          /\ execution_log' = r.log
          /\ attempts' = Append(attempts,
                [fix |-> fix,
                 outcome |-> CASE ~known -> "no implementation"
                               [] r.exc # "none" -> r.exc
                               [] OTHER -> "done",
                 before |-> heap[df], after |-> r.heap[r.df],
                 lost_before |-> original_row_count - NRows(heap[df]),
                 log_before |-> Len(execution_log), log_after |-> Len(r.log)])
          /\ IF r.exc # "none" /\ ~Caught(r.exc)
             THEN pc' = "raised" /\ fix_idx' = fix_idx
             ELSE pc' = "loop" /\ fix_idx' = fix_idx + 1
    /\ UNCHANGED <<id_columns, original_row_count, all_fixes, recommended_fixes,
                   entry_df, returned, controller_vars, detection_vars, analysis_vars>>

\* return self.df, self.execution_log
Return ==
    /\ pc = "loop"
    /\ fix_idx > Len(recommended_fixes)
    /\ returned' = [df |-> df, log |-> execution_log]
    /\ pc' = "returned"
    /\ UNCHANGED <<heap, df, execution_log, id_columns, original_row_count,
                   all_fixes, recommended_fixes, fix_idx, attempts, entry_df,
                   controller_vars, detection_vars, analysis_vars>>

Next == Construct \/ StartBatch \/ ApplyNextFix \/ Return

Spec == Init /\ [][Next]_vars

(***************************************************************************)
(* Properties of the batch runs.                                           *)
(***************************************************************************)
Selected == Recommended(all_fixes)

CountIn(fixes, f) == Cardinality({i \in 1..Len(fixes) : fixes[i] = f})

Attempted == [i \in 1..Len(attempts) |-> attempts[i].fix]

RowsLost(a) == NRows(a.before) - NRows(a.after)

\* C2: the loop takes the selected fixes in non-decreasing priority class
\* (text normalization 1, date format 2, word to number 3, placeholder and
\* empty to NaN 4, invalid dates 5, range, negative and domain corrections 6,
\* imputation 7, duplicate removal 8): a fix is never attempted while a
\* selected fix of a lower class is still waiting, whatever the order of the
\* input, and at the return each selected fix has been attempted once.
C2_PriorityOrder ==
    /\ \A i, j \in 1..Len(attempts) :
          i < j => get_fix_priority(Attempted[i]) <= get_fix_priority(Attempted[j])
    /\ \A f \in Range(Selected) :
          /\ CountIn(Attempted, f) <= CountIn(Selected, f)
          /\ CountIn(Attempted, f) < CountIn(Selected, f) =>
                \A i \in 1..Len(attempts) :
                   get_fix_priority(Attempted[i]) <= get_fix_priority(f)
    /\ pc = "returned" =>
          /\ Len(attempts) = Len(Selected)
          /\ \A f \in Range(Selected) : CountIn(Attempted, f) = CountIn(Selected, f)

\* a run that has returned after it took a fix of a lower class first although
\* the input had it after a fix of a higher class
C2_Witness ==
    /\ pc = "returned"
    /\ Len(Selected) >= 2
    /\ get_fix_priority(Selected[1]) > get_fix_priority(Selected[2])
    /\ Attempted[1] = Selected[2]
    /\ get_fix_priority(Attempted[1]) \in 1..8

\* C3: no fix removes rows when that takes the loss since the start of the
\* run past 50% of the original row count.
C3_CumulativeGuard ==
    \A i \in 1..Len(attempts) :
       RowsLost(attempts[i]) > 0 =>
          (original_row_count - NRows(attempts[i].after)) * 100
             <= 50 * original_row_count

\* C4: no fix removes more than 30% of the rows it finds.
C4_PerFixGuard ==
    \A i \in 1..Len(attempts) :
       RowsLost(attempts[i]) > 0 =>
          RowsLost(attempts[i]) * 100 <= 30 * NRows(attempts[i].before)

\* C5: the dataset that a batch returns keeps at least half of the original
\* rows; the qualifier of the specification is read as an excuse, so that a
\* run only counts against the property when one of its fixes removed more
\* than 30% of the rows it found.
C5_RowCountInvariant ==
    pc = "returned" =>
       \/ NRows(heap[returned.df]) * 2 >= original_row_count
       \/ \A i \in 1..Len(attempts) :
             RowsLost(attempts[i]) * 100 <= 30 * NRows(attempts[i].before)

OneToN(n) == [k \in 1..n |-> Num(k)]

Failed(a) == a.outcome \notin {"done", "no implementation"}

\* C7: an exception of a fix method stays in the loop: the log is as it was
\* before the fix, the later fixes are attempted, and the call returns the
\* working dataset and the log.
C7_FailureContained ==
    /\ pc # "raised"
    /\ \A i \in 1..Len(attempts) :
          Failed(attempts[i]) => attempts[i].log_after = attempts[i].log_before
    /\ pc = "returned" =>
          /\ Len(attempts) = Len(Selected)
          /\ returned = [df |-> df, log |-> execution_log]

\* a run that returned after a fix raised and a later fix was applied and
\* logged
C7_Witness ==
    /\ pc = "returned"
    /\ \E i, j \in 1..Len(attempts) :
          /\ i < j
          /\ Failed(attempts[i])
          /\ attempts[j].outcome = "done"
          /\ attempts[j].log_after > attempts[j].log_before
          /\ attempts[j].after # attempts[j].before

(***************************************************************************)
(* Fix strategies: what the values of a column are, for the statistics of  *)
(* the recommendations.                                                    *)
(***************************************************************************)
\* the characters of the model in the order of their code points
CharOrder ==
    <<" ", "!", "#", "$", "%", "&", "(", ")", "*", "+", ",", "-", ".", "/">>
    \o DigitChars \o <<":", ">", "?", "@">> \o UpperChars \o <<"^", "_">>
    \o LowerChars \o <<"é", "ñ">>

Ord(c) == CHOOSE i \in 1..Len(CharOrder) : CharOrder[i] = c

\* a < b for two str
TextLess(a, b) ==
    \E k \in 1..(Len(b)) :
       /\ k <= Len(a) + 1
       /\ SubSeq(a, 1, k - 1) = SubSeq(b, 1, k - 1)
       /\ k = Len(a) + 1 \/ Ord(a[k]) < Ord(b[k])

CellLess(a, b) ==
    IF IsStr(a) THEN TextLess(a.s, b.s) ELSE Twice(a) < Twice(b)

CountOf(cells, x) == Cardinality({i \in 1..Len(cells) : cells[i] = x})

\* the values that occur most often
Modes(cells) ==
    {x \in Range(cells) :
        \A y \in Range(cells) : CountOf(cells, y) <= CountOf(cells, x)}

\* Series.mode()[0] for the most frequent values M of the non-null cells:
\* the least of them; values that do not compare (text with numbers) stay in
\* the order of their first occurrence
PickMode(cells, M) ==
    IF (\A x \in M : IsStr(x)) \/ (\A x \in M : IsNum(x))
    THEN CHOOSE x \in M : \A y \in M \ {x} : CellLess(x, y)
    ELSE cells[CHOOSE i \in 1..Len(cells) :
                  cells[i] \in M /\ \A j \in 1..(i - 1) : cells[j] \notin M]

ModeOf(cells) == PickMode(cells, Modes(cells))

\* Series.dropna()
DropNa(cells) == FilterSeq(cells, {i \in 1..Len(cells) : ~IsNa(cells[i])})

\* series[~mask(astype(str))]
Without(cells, Mask(_)) ==
    FilterSeq(cells, {i \in 1..Len(cells) : ~Mask(AsStr(cells[i]))})

Doubled(cells) == [i \in 1..Len(cells) |-> Twice(cells[i])]

\* Series.median() of a numeric column, NaN when every value is null
MedianOfCells(cells) ==
    IF DropNa(cells) = <<>> THEN NaN ELSE MedianOf2(Doubled(DropNa(cells)))

\* the sum of the cubes of the deviations, each times the count
SumCubeDev(vals) ==
    LET n == Len(vals)
        S == SumSeq(vals)
    IN SumSeq([i \in 1..n |->
                  (n * vals[i] - S) * (n * vals[i] - S) * (n * vals[i] - S)])

\* abs(Series.skew()) > 1 for the non-null values vals: the adjusted
\* Fisher-Pearson coefficient sqrt(n(n-1))/(n-2) * m3 / m2^(3/2), which is NaN
\* below three values and 0 for a constant column; with D2 and D3 the sums of
\* the squares and cubes of (n x - S), the test is
\* n^2 (n-1) D3^2 > (n-2)^2 D2^3
SkewOver1(vals, n) ==
    /\ n >= 3
    /\ SumSqDev(vals) > 0
    /\ n * n * (n - 1) * SumCubeDev(vals) * SumCubeDev(vals)
          > (n - 2) * (n - 2) * SumSqDev(vals) * SumSqDev(vals) * SumSqDev(vals)

\* an issue of the detection engine, as the dict that the strategies read
Issue(issue_id, column, issue_type) ==
    [issue_id |-> issue_id, column |-> column, issue_type |-> issue_type]

\* `tag in issue_id`: no issue_id of the model is part of another one
InId(tag, issue_id) == issue_id = tag

\* what generate_fixes ends with: the list it returns, or an exception
Fixes(fixes) == [fixes |-> fixes, exc |-> "none"]
Raises(exc)  == [fixes |-> <<>>, exc |-> exc]

W_age == <<"a","g","e">>

(***************************************************************************)
(* Module_4_FixingEngine/fix_strategies/MissingValueStrategy.py.           *)
(* d is the DataFrame that the strategy holds, meta the column metadata.   *)
(***************************************************************************)
NoColMeta == [dtype |-> "unknown", mean |-> None]

\* self.metadata["columns"].get(column, {})
ColMeta(meta, column) == IF column \in DOMAIN meta THEN meta[column] ELSE NoColMeta

IsNumericMeta(dtype)     == dtype \in {"int64", "float64"}
IsCategoricalMeta(dtype) == dtype \in {"category", "object"}
IsDatetimeMeta(dtype)    == dtype = "datetime64[ns]"

HasDigit(s) == \E i \in 1..Len(s) : IsDigitChar(s[i])

RECURSIVE TakeDigits(_)
TakeDigits(s) ==
    IF s # <<>> /\ IsDigitChar(Head(s)) THEN <<Head(s)>> \o TakeDigits(Tail(s))
    ELSE <<>>

RECURSIVE FirstDigits(_)
\* the group of r'(\d+)' in s, empty without a match
FirstDigits(s) ==
    IF s = <<>> THEN <<>>
    ELSE IF IsDigitChar(Head(s)) THEN TakeDigits(s)
    ELSE FirstDigits(Tail(s))

\* astype(str).str.extract(r'(\d+)').astype(float) of one cell
ExtractNumeric(c) ==
    IF HasDigit(AsStr(c)) THEN Num(DigitsValue(FirstDigits(AsStr(c)))) ELSE NaN

\* missing_pct > 40; the percentage of an empty DataFrame is NaN
MissingOver40(d, column) ==
    NRows(d) > 0 /\ CountIf(d, column, IsNa) * 100 > 40 * NRows(d)

\* the conditions of lines 40-47: a non-null value of an object column with
\* a digit in its text
HasNumericPattern(d, column, dtype) ==
    /\ dtype = "object"
    /\ \E i \in 1..NRows(d) :
          ~IsNa(d.rows[i][column]) /\ HasDigit(AsStr(d.rows[i][column]))

\* int(extracted.median())
MedianExtracted(cells) ==
    Num(Twice(MedianOfCells([i \in 1..Len(cells) |-> ExtractNumeric(cells[i])])) \div 2)

ExtractOrDrop(d, issue) ==
    <<DataFix("FIX_EXTRACT_NUMERIC_IMPUTE", issue.issue_id, issue.column, TRUE,
              [NoMetadata EXCEPT
                  !.median_value = MedianExtracted(DropNa(Column(d, issue.column)))]),
      DataFix("FIX_DROP_COLUMN", issue.issue_id, issue.column, FALSE, NoMetadata)>>

IsAgeColumn(column) == Contains(StrLower(column), W_age)

IsIntegerContext(column) ==
    \/ IsAgeColumn(column)
    \/ Contains(StrLower(column), <<"c","o","u","n","t">>)
    \/ Contains(StrLower(column), <<"q","u","a","n","t","i","t","y">>)
    \/ Contains(StrLower(column), <<"n","u","m","b","e","r">>)

\* median_val of lines 102-105 and 133-135
MedianForImpute(cells, is_integer_context) ==
    IF is_integer_context THEN IntRound(MedianOfCells(cells)) ELSE MedianOfCells(cells)

MedianImputeFix(d, issue, rec) ==
    DataFix("FIX_MEDIAN_IMPUTE", issue.issue_id, issue.column, rec,
            [NoMetadata EXCEPT
                !.median_value = MedianForImpute(Column(d, issue.column),
                                                 IsIntegerContext(issue.column)),
                !.round_to_int = IsIntegerContext(issue.column)])

MeanImputeFix(issue, mean_val) ==
    DataFix("FIX_MEAN_IMPUTE", issue.issue_id, issue.column, TRUE,
            [NoMetadata EXCEPT !.mean_value = mean_val,
                               !.round_to_int = IsIntegerContext(issue.column)])

\* Series.median() of text raises; int(round(NaN)) raises
MedianRaises(d, column) ==
    CASE ~IsNumericDtype(d, column) -> "TypeError"
      [] IsIntegerContext(column) /\ DropNa(Column(d, column)) = <<>> -> "ValueError"
      [] OTHER -> "none"

\* int(round(mean_val)) of a missing or NaN mean raises
MeanRaises(column, mean_val) ==
    CASE ~IsIntegerContext(column) -> "none"
      [] mean_val = None -> "TypeError"
      [] IsNa(mean_val) -> "ValueError"
      [] OTHER -> "none"

\* lines 92-147: the skewness is that of a numeric column, 0 otherwise
NumericFixes(d, issue, mean_val) ==
    IF \/ IsAgeColumn(issue.column)
       \/ /\ IsNumericDtype(d, issue.column)
          /\ SkewOver1(Doubled(DropNa(Column(d, issue.column))),
                       Len(DropNa(Column(d, issue.column))))
    THEN IF MedianRaises(d, issue.column) # "none"
         THEN Raises(MedianRaises(d, issue.column))
         ELSE Fixes(<<MedianImputeFix(d, issue, TRUE)>>)
    ELSE IF MeanRaises(issue.column, mean_val) # "none"
         THEN Raises(MeanRaises(issue.column, mean_val))
    ELSE IF MedianRaises(d, issue.column) # "none"
         THEN Raises(MedianRaises(d, issue.column))
    ELSE Fixes(<<MeanImputeFix(issue, mean_val), MedianImputeFix(d, issue, FALSE)>>)

\* ['unknown', 'none', 'null', 'n/a']
PlaceholderTokens ==
    {<<"u","n","k","n","o","w","n">>, <<"n","o","n","e">>, <<"n","u","l","l">>,
     <<"n","/","a">>}

\* clean_values of lines 150-153
CleanValues(cells) ==
    Without(Without(DropNa(cells), LAMBDA s : HasCharIn(s, SpecialChars)),
            LAMBDA s : StrStrip(StrLower(s)) \in PlaceholderTokens)

\* recommend_mode: mode_frequency > 0.2 and diversity_ratio < 0.7
RecommendMode(clean) ==
    /\ 5 * CountOf(clean, ModeOf(clean)) > Len(clean)
    /\ 10 * Cardinality(Range(clean)) < 7 * Len(clean)

ModeImputeFix(clean, issue) ==
    DataFix("FIX_MODE_IMPUTE", issue.issue_id, issue.column, RecommendMode(clean),
            [NoMetadata EXCEPT !.mode_value = ModeOf(clean)])

DropRowsFix(issue, rec) ==
    DataFix("FIX_DROP_ROWS", issue.issue_id, issue.column, rec, NoMetadata)

\* lines 149-192.  Past line 163 mode_val is the value itself, and line 181
\* reads its attribute `empty` unless diversity_ratio > 0.5 decides before
CategoricalFixes(clean, issue) ==
    IF clean = <<>> THEN Fixes(<<DropRowsFix(issue, TRUE)>>)
    ELSE IF 2 * Cardinality(Range(clean)) > Len(clean)
    THEN Fixes(<<ModeImputeFix(clean, issue),
                 DropRowsFix(issue, ~RecommendMode(clean))>>)
    ELSE Raises("AttributeError")

ForwardFillFix(issue) ==
    DataFix("FIX_FORWARD_FILL", issue.issue_id, issue.column, TRUE, NoMetadata)

\* the branch on the dtype of the metadata, lines 92-205
FixesByDtype(d, issue, col_meta) ==
    CASE IsNumericMeta(col_meta.dtype) -> NumericFixes(d, issue, col_meta.mean)
      [] IsCategoricalMeta(col_meta.dtype) ->
            CategoricalFixes(CleanValues(Column(d, issue.column)), issue)
      [] IsDatetimeMeta(col_meta.dtype) -> Fixes(<<ForwardFillFix(issue)>>)
      [] OTHER -> Fixes(<<>>)

HasFixId(fixes, fix_id) == \E i \in 1..Len(fixes) : fixes[i].fix_id = fix_id

\* rows_remaining_pct >= 60
RowsRemainingOver60(d, column) ==
    NRows(d) > 0 /\ (NRows(d) - CountIf(d, column, IsNa)) * 100 >= 60 * NRows(d)

\* lines 207-222
WithDropRowsOption(d, issue, fixes) ==
    IF ~HasFixId(fixes, "FIX_DROP_ROWS") /\ RowsRemainingOver60(d, issue.column)
    THEN Append(fixes, DropRowsFix(issue, FALSE))
    ELSE fixes

\* lines 80-90
DropColumnIfOver40(d, issue) ==
    IF MissingOver40(d, issue.column)
    THEN <<DataFix("FIX_DROP_COLUMN", issue.issue_id, issue.column, TRUE, NoMetadata)>>
    ELSE <<>>

\* the fixes of lines 80-222 after those of the branch on the dtype
AfterDtype(d, issue, r) ==
    IF r.exc # "none" THEN r
    ELSE Fixes(WithDropRowsOption(d, issue, DropColumnIfOver40(d, issue) \o r.fixes))

MissingValueStrategy_generate_fixes(d, meta, issue) ==
    IF ~HasCol(d, issue.column) THEN Raises("KeyError")
    ELSE IF /\ MissingOver40(d, issue.column)
            /\ HasNumericPattern(d, issue.column, ColMeta(meta, issue.column).dtype)
    THEN Fixes(ExtractOrDrop(d, issue))
    ELSE AfterDtype(d, issue, FixesByDtype(d, issue, ColMeta(meta, issue.column)))

(***************************************************************************)
(* fix_strategies/TextCleaningStrategy.py (both packages; the e-mail and   *)
(* phone branches are those of Module_4_FixingEngine).                     *)
(***************************************************************************)
OneFix(fix_id, issue, rec) ==
    DataFix(fix_id, issue.issue_id, issue.column, rec, NoMetadata)

W_email == <<"e","m","a","i","l">>

\* ['unknown', 'none', 'null', 'n/a', '', 'nan']
EmptyOrPlaceholder == PlaceholderTokens \cup {<<>>, W_nan}

\* valid_values of lines 122-130
ValidValues(cells, column) ==
    Without(Without(DropNa(cells),
                    LAMBDA s : /\ ~Contains(StrLower(column), W_email)
                               /\ HasCharIn(s, SpecialCharsNoAt)),
            LAMBDA s : StrStrip(StrLower(s)) \in EmptyOrPlaceholder)

\* lines 132-159: the mode when there is a valid value, and the NaN fix with
\* is_recommended = not valid_values.empty
EmptyTextFixes(valid_values, issue) ==
    IF valid_values = <<>> THEN <<OneFix("FIX_EMPTY_TEXT_TO_NAN", issue, FALSE)>>
    ELSE <<DataFix("FIX_EMPTY_TEXT_TO_MODE", issue.issue_id, issue.column, TRUE,
                   [NoMetadata EXCEPT !.mode_value = ModeOf(valid_values)]),
           OneFix("FIX_EMPTY_TEXT_TO_NAN", issue, TRUE)>>

TextCleaningStrategy_generate_fixes(d, issue) ==
    CASE InId("WHITESPACE", issue.issue_id) ->
            IF ~HasCol(d, issue.column) THEN Raises("KeyError")
            ELSE Fixes(<<OneFix("FIX_STRIP_WHITESPACE", issue, TRUE)>>)
      [] InId("ENCODING_JUNK", issue.issue_id) ->
            IF ~HasCol(d, issue.column) THEN Raises("KeyError")
            ELSE Fixes(<<OneFix("FIX_REMOVE_NON_ASCII", issue, TRUE)>>)
      [] InId("SPECIAL_CHARS", issue.issue_id) ->
            IF ~HasCol(d, issue.column) THEN Raises("KeyError")
            ELSE Fixes(<<OneFix("FIX_REMOVE_SPECIAL_CHARS", issue, TRUE),
                         OneFix("FIX_REPLACE_SPECIAL_WITH_SPACE", issue, FALSE)>>)
      [] InId("CASE_DIVERGE", issue.issue_id) ->
            IF ~HasCol(d, issue.column) THEN Raises("KeyError")
            ELSE Fixes(<<OneFix("FIX_STANDARDIZE_CASE_LOWER", issue, TRUE)>>)
      [] InId("PROXY_MISSING", issue.issue_id) ->
            IF ~HasCol(d, issue.column) THEN Raises("KeyError")
            ELSE Fixes(<<OneFix("FIX_PROXY_TO_NAN", issue, TRUE)>>)
      [] InId("EMPTY_TEXT", issue.issue_id) ->
            IF ~HasCol(d, issue.column) THEN Raises("KeyError")
            ELSE Fixes(EmptyTextFixes(ValidValues(Column(d, issue.column), issue.column),
                                      issue))
      [] InId("EMAIL_FORMAT_ISSUE", issue.issue_id) ->
            Fixes(<<OneFix("FIX_EMAIL_TYPOS", issue, TRUE),
                    OneFix("FIX_EMPTY_TEXT_TO_NAN", issue, FALSE)>>)
      [] InId("PHONE_FORMAT_ISSUE", issue.issue_id) ->
            Fixes(<<OneFix("FIX_STANDARDIZE_PHONE", issue, TRUE)>>)
      [] OTHER -> Fixes(<<>>)

(***************************************************************************)
(* Module_4_FixingEngine/fix_strategies/NumericValidityStrategy.py.        *)
(***************************************************************************)
\* ['discount', 'tax', 'rate', 'percentage', 'markup']
percentage_keywords ==
    {<<"d","i","s","c","o","u","n","t">>, <<"t","a","x">>, <<"r","a","t","e">>,
     <<"p","e","r","c","e","n","t","a","g","e">>, <<"m","a","r","k","u","p">>}

IsPercentageColumn(column) ==
    \E key \in percentage_keywords : Contains(StrLower(column), key)

OutOf0To100(y) == IsNum(y) /\ (Gt(y, 100) \/ Lt(y, 0))

\* lines 26-40
ClipIfPercentage(numeric_col, issue) ==
    IF /\ IsPercentageColumn(issue.column)
       /\ \E i \in 1..Len(numeric_col) : OutOf0To100(numeric_col[i])
    THEN <<OneFix("FIX_CLIP_PERCENTAGE", issue, TRUE)>>
    ELSE <<>>

\* numeric_col[numeric_col >= 0].median()
MedianOfNonNegative(numeric_col) ==
    MedianOfCells(FilterSeq(numeric_col,
        {i \in 1..Len(numeric_col) : IsNum(numeric_col[i]) /\ ~Lt(numeric_col[i], 0)}))

\* lines 43-84
NegativeFixes(numeric_col, issue) ==
    IF \E i \in 1..Len(numeric_col) : IsNum(numeric_col[i]) /\ Lt(numeric_col[i], 0)
    THEN <<OneFix("FIX_NEGATIVE_TO_ABS", issue, FALSE),
           DataFix("FIX_NEGATIVE_TO_MEDIAN", issue.issue_id, issue.column, TRUE,
                   [NoMetadata EXCEPT !.median_value = MedianOfNonNegative(numeric_col)]),
           OneFix("FIX_NEGATIVE_TO_NAN", issue, FALSE)>>
    ELSE <<>>

\* lines 87-125
RangeFixes(numeric_col, issue) ==
    IF \E i \in 1..Len(numeric_col) : IsNum(numeric_col[i]) /\ Gt(numeric_col[i], 100)
    THEN <<OneFix("FIX_CAP_AT_100", issue, TRUE),
           OneFix("FIX_RANGE_TO_NAN", issue, FALSE),
           OneFix("FIX_DROP_INVALID_ROWS", issue, FALSE)>>
    ELSE <<>>

\* lines 126-153: a value strictly between 0 and 1 offers the scaling
PercentFixes(numeric_col, issue) ==
    <<OneFix("FIX_CLIP_PERCENTAGE", issue, TRUE)>>
    \o (IF \E i \in 1..Len(numeric_col) :
             IsNum(numeric_col[i]) /\ Gt(numeric_col[i], 0) /\ Lt(numeric_col[i], 1)
        THEN <<OneFix("FIX_SCALE_PERCENTAGE", issue, FALSE)>>
        ELSE <<>>)

\* the if / elif chain of lines 43-153
ByIssueId(numeric_col, issue) ==
    CASE InId("NEG_AGE", issue.issue_id) \/ IsAgeColumn(issue.column) ->
            NegativeFixes(numeric_col, issue)
      [] InId("RANGE_EXCEEDED", issue.issue_id) -> RangeFixes(numeric_col, issue)
      [] InId("PERCENT_VIOLATION", issue.issue_id) -> PercentFixes(numeric_col, issue)
      [] OTHER -> <<>>

NumericOf(cells) == [i \in 1..Len(cells) |-> ToNumeric(cells[i])]

NumericValidityGenerate(numeric_col, issue) ==
    ClipIfPercentage(numeric_col, issue) \o ByIssueId(numeric_col, issue)

NumericValidityStrategy_generate_fixes(d, issue) ==
    IF ~HasCol(d, issue.column) THEN Raises("KeyError")
    ELSE Fixes(NumericValidityGenerate(NumericOf(Column(d, issue.column)), issue))

(***************************************************************************)
(* FixingEngine/fix_strategies/DuplicateStrategy.py.                       *)
(***************************************************************************)
DuplicateStrategy_generate_fixes(d, issue) ==
    IF InId("ID_CLASH", issue.issue_id)
    THEN IF ~HasCol(d, issue.column) THEN Raises("KeyError")
         ELSE Fixes(<<OneFix("FIX_KEEP_FIRST_ID", issue, TRUE),
                      OneFix("FIX_KEEP_LAST_ID", issue, FALSE),
                      OneFix("FIX_KEEP_COMPLETE", issue, FALSE)>>)
    ELSE Fixes(<<DataFix("FIX_DROP_EXACT_DUPLICATES", issue.issue_id, N_All, TRUE,
                         NoMetadata)>>)

(***************************************************************************)
(* Module_4_FixingEngine/FixExecutor.py: the methods that differ from      *)
(* those of FixingEngine/FixExecutor.py, and the ones it adds.             *)
(***************************************************************************)
\* an entry with the key `details` in the place of `values_changed`
Details == [t |-> "details", n |-> 0]

LoggedAs(e, column, fix_applied, values_changed) ==
    [e EXCEPT !.log = Append(@, LogEntry(column, fix_applied, values_changed))]

\* int(x) of a number: towards zero
TruncInt(c) ==
    IF c.k = "half"
    THEN Num(IF c.v >= 0 THEN c.v \div 2 ELSE -((-c.v) \div 2))
    ELSE c

\* the column is replaced by the extracted numbers before fillna and
\* astype(int), which raise for a missing median and for a NaN that is left
m4_apply_extract_numeric_impute(e, fix) ==
    LET d == Cur(e)
        column == fix.column
        median_val == fix.metadata.median_value
        extracted == MapCol(d, column, ExtractNumeric)
    IN IF ~HasCol(d, column) THEN Raise(e, "KeyError")
       ELSE IF \/ median_val = None
               \/ (IsNa(median_val) /\ CountIf(extracted, column, IsNa) > 0)
       THEN Raise(SetCur(e, extracted), "ValueError")
       ELSE LoggedAs(SetCur(e, MapCol(Fillna(extracted, column, median_val), column,
                                      TruncInt)),
                     column, fix.fix_label,
                     [t |-> "missing values imputed, all values extracted",
                      n |-> CountIf(d, column, IsNa)])

\* the end of the row-removing methods, with the words of the log entry
RowsRemovedAs(e, before_rows, column, fix, words) ==
    LET e1 == ResetIfChanged(e, before_rows)
    IN Logged(e1, column, fix, [t |-> words, n |-> before_rows - NRows(Cur(e1))])

\* self.df = self.df[~Bad(astype)]
m4_DropWhere(e, fix, Bad(_)) ==
    LET d == Cur(e)
    IN IF ~HasCol(d, fix.column) THEN Raise(e, "KeyError")
       ELSE RowsRemoved(
               Rebind(e, KeepRows(d, {i \in 1..NRows(d) : ~Bad(d.rows[i][fix.column])})),
               NRows(d), fix.column, fix)

m4_apply_drop_invalid_rows(e, fix) ==
    m4_DropWhere(e, fix, LAMBDA x : IsNum(ToNumeric(x)) /\ Gt(ToNumeric(x), 100))

m4_apply_drop_text_rows(e, fix) ==
    m4_DropWhere(e, fix, LAMBDA x : HasAlpha(AsStr(x)))

\* before_count counts the cells with a letter
m4_apply_text_to_nan_impute(e, fix) ==
    LET d == Cur(e)
        column == fix.column
        median_val == fix.metadata.median_value
        coerced == MapCol(d, column, ToNumeric)
    IN IF ~HasCol(d, column) THEN Raise(e, "KeyError")
       ELSE IF median_val = None THEN Raise(SetCur(e, coerced), "ValueError")
       ELSE Logged(SetCur(e, Fillna(coerced, column, median_val)), column, fix,
                   VCount(CountIf(d, column, LAMBDA x : HasAlpha(AsStr(x)))))

\* pd.api.types.is_integer_dtype: integers and no null
IsIntegerDtype(d, c) ==
    NRows(d) > 0 /\ \A i \in 1..NRows(d) : d.rows[i][c].k = "num"

\* int(round(bound)) of an integer column raises for None and NaN
BoundRaises(d, column, lo, hi) ==
    CASE IsIntegerDtype(d, column) /\ (lo = None \/ hi = None) -> "TypeError"
      [] IsIntegerDtype(d, column) /\ (IsNa(lo) \/ IsNa(hi)) -> "ValueError"
      \* the comparison of the column with None, or of text with a number
      [] lo = None \/ hi = None \/ ~IsNumericDtype(d, column) -> "TypeError"
      [] OTHER -> "none"

m4_ClipColumn(e, fix, lo, hi) ==
    Logged(SetCur(e, MapCol(Cur(e), fix.column,
                    LAMBDA x : IF IsNum(x) THEN Clip(x, lo, hi) ELSE x)),
           fix.column, fix,
           VCount(CountIf(Cur(e), fix.column,
                    LAMBDA x : IsNum(x) /\ (Below(x, lo) \/ Above(x, hi)))))

\* the column is not coerced; the bounds of an integer column are rounded
m4_CapBetween(e, fix, lo, hi) ==
    IF ~HasCol(Cur(e), fix.column) THEN Raise(e, "KeyError")
    ELSE IF BoundRaises(Cur(e), fix.column, lo, hi) # "none"
    THEN Raise(e, BoundRaises(Cur(e), fix.column, lo, hi))
    ELSE IF IsIntegerDtype(Cur(e), fix.column)
    THEN m4_ClipColumn(e, fix, IntRound(lo), IntRound(hi))
    ELSE m4_ClipColumn(e, fix, lo, hi)

m4_apply_cap_percentile(e, fix) ==
    m4_CapBetween(e, fix, fix.metadata.p1, fix.metadata.p99)

m4_apply_cap_iqr(e, fix) ==
    m4_CapBetween(e, fix, fix.metadata.lower_bound, fix.metadata.upper_bound)

m4_apply_winsorize(e, fix) ==
    m4_CapBetween(e, fix, fix.metadata.p5, fix.metadata.p95)

\* returns without a log entry below three values and for a constant column
m4_RemoveOutliers(e, fix, vals) ==
    IF Len(vals) < 3 \/ SumSqDev(vals) = 0 THEN e
    ELSE RowsRemoved(
            Rebind(e, KeepRows(Cur(e),
                {i \in 1..NRows(Cur(e)) :
                    /\ IsNum(Cur(e).rows[i][fix.column])
                    /\ ZWithin3(Twice(Cur(e).rows[i][fix.column]), vals)})),
            NRows(Cur(e)), fix.column, fix)

m4_apply_remove_outliers(e, fix) ==
    IF ~HasCol(Cur(e), fix.column) THEN Raise(e, "KeyError")
    ELSE IF /\ ~IsNumericDtype(Cur(e), fix.column)
            /\ Len(DropNa(Column(Cur(e), fix.column))) >= 3
    THEN Raise(e, "TypeError")
    ELSE m4_RemoveOutliers(e, fix, Doubled(FilterSeq(Column(Cur(e), fix.column),
            {i \in 1..NRows(Cur(e)) : IsNum(Cur(e).rows[i][fix.column])})))

\* drop_duplicates(keep='last')
LastOccurrences(rows, Key(_)) ==
    {i \in 1..Len(rows) : \A j \in (i + 1)..Len(rows) : Key(rows[j]) # Key(rows[i])}

\* drop_duplicates in place, and "<n> duplicates removed"
m4_DropDuplicates(e, fix, keep, column, words) ==
    RowsRemovedAs(SetCur(e, KeepRows(Cur(e), keep)), NRows(Cur(e)), column, fix, words)

m4_apply_keep_first_id(e, fix) ==
    IF ~HasCol(Cur(e), fix.column) THEN Raise(e, "KeyError")
    ELSE m4_DropDuplicates(e, fix,
            FirstOccurrences(Cur(e).rows, LAMBDA r : r[fix.column]),
            fix.column, "duplicates removed")

m4_apply_keep_last_id(e, fix) ==
    IF ~HasCol(Cur(e), fix.column) THEN Raise(e, "KeyError")
    ELSE m4_DropDuplicates(e, fix,
            LastOccurrences(Cur(e).rows, LAMBDA r : r[fix.column]),
            fix.column, "duplicates removed")

m4_apply_drop_exact_duplicates(e, fix) ==
    m4_DropDuplicates(e, fix, FirstOccurrences(Cur(e).rows, LAMBDA r : r),
                      N_All, "exact duplicates removed")

\* duplicated(keep=False): the rows whose value another row has
DuplicatedAll(d, column) ==
    {i \in 1..NRows(d) :
        \E j \in 1..NRows(d) : j # i /\ d.rows[j][column] = d.rows[i][column]}

\* isnull().sum(axis=1)
NullCount(d, i) == Cardinality({c \in Range(d.cols) : IsNa(d.rows[i][c])})

\* the row that the lambda of line 489 picks in each group: the first of
\* those with the fewest nulls; groupby leaves the null keys out
MostComplete(d, column, dups) ==
    {i \in dups :
        /\ ~IsNa(d.rows[i][column])
        /\ \A j \in dups :
              d.rows[j][column] = d.rows[i][column] =>
                 \/ NullCount(d, j) > NullCount(d, i)
                 \/ (NullCount(d, j) = NullCount(d, i) /\ j >= i)}

\* what the library makes of line 489, where the result of the apply has the
\* group keys as its only index level: get_level_values(1) raises, or yields
\* the labels of the chosen rows
KeepCompleteOutcomes == {"IndexError", "labels"}

m4_KeepComplete(e, fix, dups, outcome) ==
    IF dups = {} THEN e
    ELSE IF outcome = "IndexError" THEN Raise(e, "IndexError")
    ELSE RowsRemovedAs(
            Rebind(e, KeepRows(Cur(e),
                ((1..NRows(Cur(e))) \ dups) \cup MostComplete(Cur(e), fix.column, dups))),
            NRows(Cur(e)), fix.column, fix, "duplicates removed")

m4_apply_keep_complete(e, fix, outcome) ==
    IF ~HasCol(Cur(e), fix.column) THEN Raise(e, "KeyError")
    ELSE m4_KeepComplete(e, fix, DuplicatedAll(Cur(e), fix.column), outcome)

\* no collapse of the blanks and no strip
m4_apply_replace_special_with_space(e, fix) ==
    TextFix(e, fix, SpecialToSpace, LAMBDA s : HasCharIn(s, SpecialChars))

\* no test of the dtype
m4_apply_empty_text_to_mode(e, fix) ==
    MaskedSet(e, fix, IsEmptyText, AsCell(fix.metadata.mode_value))

m4_apply_invalid_date_impute_median(e, fix) ==
    InvalidDateSet(e, fix, AsCell(fix.metadata.median_date), VCount)

m4_apply_clip_percentage(e, fix) ==
    IF ~HasCol(Cur(e), fix.column) THEN Raise(e, "KeyError")
    ELSE LoggedAs(
            SetCur(e, MapCol(Cur(e), fix.column,
                LAMBDA x : IF IsNum(ToNumeric(x))
                           THEN Clip(ToNumeric(x), Num(0), Num(100)) ELSE NaN)),
            fix.column, "Clipped to 0-100 range", Details)

\* corrections of _apply_email_typo_fix, in the order of the dict
corrections ==
    <<<< <<"g","n","a","i","l",".","c","o","m">>, <<"g","m","a","i","l",".","c","o","m">> >>,
      << <<"g","m","a","l",".","c","o","m">>, <<"g","m","a","i","l",".","c","o","m">> >>,
      << <<"y","a","h","o",".","c","o","m">>, <<"y","a","h","o","o",".","c","o","m">> >>,
      << <<"h","o","t","m","i","a","l",".","c","o","m">>,
         <<"h","o","t","m","a","i","l",".","c","o","m">> >>,
      << <<"o","u","t","l","o","k",".","c","o","m">>,
         <<"o","u","t","l","o","o","k",".","c","o","m">> >>,
      << <<"g","m","i","a","l",".","c","o","m">>, <<"g","m","a","i","l",".","c","o","m">> >> >>

RECURSIVE ReplaceNoCase(_, _, _)
\* str.replace(typo, correct, case=False, regex=False)
ReplaceNoCase(s, typo, correct) ==
    IF Len(s) < Len(typo) THEN s
    ELSE IF StrLower(SubSeq(s, 1, Len(typo))) = typo
    THEN correct \o ReplaceNoCase(SubSeq(s, Len(typo) + 1, Len(s)), typo, correct)
    ELSE <<Head(s)>> \o ReplaceNoCase(Tail(s), typo, correct)

RECURSIVE CorrectTypos(_, _)
CorrectTypos(s, k) ==
    IF k > Len(corrections) THEN s
    ELSE CorrectTypos(ReplaceNoCase(s, corrections[k][1], corrections[k][2]), k + 1)

\* .replace('nan', np.nan): the cells whose whole text is 'nan'
NanTextToNaN(s) == IF s = W_nan THEN NaN ELSE Str(s)

m4_apply_email_typo_fix(e, fix) ==
    IF ~HasCol(Cur(e), fix.column) THEN Raise(e, "KeyError")
    ELSE LoggedAs(
            SetCur(e, MapCol(Cur(e), fix.column,
                LAMBDA x : NanTextToNaN(CorrectTypos(AsStr(x), 1)))),
            fix.column, "Corrected Email Typos", Details)

\* str.replace(r'\D', ''): the text 'nan' of a null loses its letters too
m4_apply_standardize_phone(e, fix) ==
    IF ~HasCol(Cur(e), fix.column) THEN Raise(e, "KeyError")
    ELSE LoggedAs(
            SetCur(e, MapCol(Cur(e), fix.column,
                LAMBDA x : NanTextToNaN(FilterSeq(AsStr(x),
                    {i \in 1..Len(AsStr(x)) : IsDigitChar(AsStr(x)[i])})))),
            fix.column, "Standardized Phone Numbers", Details)

W_arrow == <<" ","-",">"," ">>

\* the place of the first " -> " in a column name, 0 without one
ArrowAt(s) ==
    IF ~Contains(s, W_arrow) THEN 0
    ELSE CHOOSE i \in 1..(Len(s) - 3) :
            /\ SubSeq(s, i, i + 3) = W_arrow
            /\ \A j \in 1..(i - 1) : SubSeq(s, j, j + 3) # W_arrow

\* fix.column.split(" -> ")[0] and [1]
StartCol(s) == SubSeq(s, 1, ArrowAt(s) - 1)
EndCol(s) ==
    LET rest == SubSeq(s, ArrowAt(s) + 4, Len(s))
    IN IF ArrowAt(rest) = 0 THEN rest ELSE StartCol(rest)

\* a < b between two parsed dates; NaT compares False
DateLess(a, b) ==
    /\ a.ok /\ b.ok
    /\ \/ a.y < b.y
       \/ (a.y = b.y /\ a.m < b.m)
       \/ (a.y = b.y /\ a.m = b.m /\ a.d < b.d)

\* pd.to_datetime without errors='coerce' raises for a value it cannot parse
Unparseable(cells) == InvalidMask(cells, ToDatetime(cells)) # {}

SwapWhere(d, start_col, end_col, mask) ==
    SetCol(SetCol(d, start_col,
                  [i \in 1..NRows(d) |->
                      d.rows[i][IF i \in mask THEN end_col ELSE start_col]]),
           end_col,
           [i \in 1..NRows(d) |->
               d.rows[i][IF i \in mask THEN start_col ELSE end_col]])

\* mask = to_datetime(end) < to_datetime(start)
SwapMask(starts, ends) ==
    {i \in 1..Len(starts) : DateLess(ends[i], starts[i])}

m4_SwapDates(e, fix, start_col, end_col) ==
    IF ~HasCol(Cur(e), start_col) \/ ~HasCol(Cur(e), end_col) THEN Raise(e, "KeyError")
    ELSE IF Unparseable(Column(Cur(e), end_col)) \/ Unparseable(Column(Cur(e), start_col))
    THEN Raise(e, "ValueError")
    ELSE LoggedAs(
            SetCur(e, SwapWhere(Cur(e), start_col, end_col,
                        SwapMask(ToDatetime(Column(Cur(e), start_col)),
                                 ToDatetime(Column(Cur(e), end_col))))),
            fix.column, "Swapped inverted dates", Details)

m4_apply_swap_dates(e, fix) ==
    IF ArrowAt(fix.column) = 0 THEN Raise(e, "IndexError")
    ELSE m4_SwapDates(e, fix, StartCol(fix.column), EndCol(fix.column))

\* np.random.choice(valid_values, size=...): pick[i] is what is drawn for row i
m4_StochasticFill(e, fix, valid_values, pick) ==
    IF valid_values = <<>>
    THEN LoggedAs(e, fix.column, "Skipped Stochastic Fill", Details)
    ELSE LoggedAs(
            SetCur(e, SetCol(Cur(e), fix.column,
                [i \in 1..NRows(Cur(e)) |->
                    IF IsNa(Cur(e).rows[i][fix.column])
                    THEN valid_values[(pick[i] % Len(valid_values)) + 1]
                    ELSE Cur(e).rows[i][fix.column]])),
            fix.column, "Stochastic Imputation", Details)

m4_apply_stochastic_fill(e, fix, pick) ==
    IF ~HasCol(Cur(e), fix.column) THEN Raise(e, "KeyError")
    ELSE m4_StochasticFill(e, fix, DropNa(Column(Cur(e), fix.column)), pick)

\* what the run leaves to the library and to the random generator
Chance(keep_complete, pick) == [keep_complete |-> keep_complete, pick |-> pick]

Chances(d, fix) ==
    CASE fix.fix_id = "FIX_KEEP_COMPLETE" ->
            {Chance(o, <<>>) : o \in KeepCompleteOutcomes}
      [] fix.fix_id = "FIX_STOCHASTIC_FILL" ->
            {Chance("labels", p) : p \in [1..NRows(d) -> 0..(NRows(d) - 1)]}
      [] OTHER -> {Chance("labels", <<>>)}

\* the keys of fix_method_map whose method is that of FixingEngine/FixExecutor.py
m4_same_methods ==
    fix_method_map \ {"FIX_TEXT_TO_NAN_IMPUTE", "FIX_CAP_PERCENTILE", "FIX_CAP_IQR",
                      "FIX_REMOVE_OUTLIERS", "FIX_KEEP_FIRST_ID",
                      "FIX_DROP_EXACT_DUPLICATES", "FIX_REPLACE_SPECIAL_WITH_SPACE",
                      "FIX_EMPTY_TEXT_TO_MODE", "FIX_INVALID_DATE_IMPUTE_MEDIAN"}

\* apply_fix: fix_method_map.get(fix.fix_id), ValueError without a method
apply_fix(e, fix, chance) ==
    CASE fix.fix_id = "FIX_STOCHASTIC_FILL" -> m4_apply_stochastic_fill(e, fix, chance.pick)
      [] fix.fix_id = "FIX_SWAP_LOGICAL_DATES" -> m4_apply_swap_dates(e, fix)
      [] fix.fix_id = "FIX_STANDARDIZE_PHONE" -> m4_apply_standardize_phone(e, fix)
      [] fix.fix_id = "FIX_EMAIL_TYPOS" -> m4_apply_email_typo_fix(e, fix)
      [] fix.fix_id = "FIX_CLIP_PERCENTAGE" -> m4_apply_clip_percentage(e, fix)
      [] fix.fix_id = "FIX_EXTRACT_NUMERIC_IMPUTE" -> m4_apply_extract_numeric_impute(e, fix)
      [] fix.fix_id = "FIX_TEXT_TO_NAN_IMPUTE" -> m4_apply_text_to_nan_impute(e, fix)
      [] fix.fix_id = "FIX_CAP_PERCENTILE" -> m4_apply_cap_percentile(e, fix)
      [] fix.fix_id = "FIX_CAP_IQR" -> m4_apply_cap_iqr(e, fix)
      [] fix.fix_id = "FIX_REMOVE_OUTLIERS" -> m4_apply_remove_outliers(e, fix)
      [] fix.fix_id = "FIX_WINSORIZE" -> m4_apply_winsorize(e, fix)
      [] fix.fix_id = "FIX_KEEP_FIRST_ID" -> m4_apply_keep_first_id(e, fix)
      [] fix.fix_id = "FIX_KEEP_LAST_ID" -> m4_apply_keep_last_id(e, fix)
      [] fix.fix_id = "FIX_KEEP_COMPLETE" ->
            m4_apply_keep_complete(e, fix, chance.keep_complete)
      [] fix.fix_id = "FIX_DROP_EXACT_DUPLICATES" -> m4_apply_drop_exact_duplicates(e, fix)
      [] fix.fix_id = "FIX_REPLACE_SPECIAL_WITH_SPACE" ->
            m4_apply_replace_special_with_space(e, fix)
      [] fix.fix_id = "FIX_EMPTY_TEXT_TO_MODE" -> m4_apply_empty_text_to_mode(e, fix)
      [] fix.fix_id = "FIX_INVALID_DATE_IMPUTE_MEDIAN" ->
            m4_apply_invalid_date_impute_median(e, fix)
      [] fix.fix_id = "FIX_DROP_TEXT_ROWS" -> m4_apply_drop_text_rows(e, fix)
      [] fix.fix_id = "FIX_DROP_INVALID_ROWS" -> m4_apply_drop_invalid_rows(e, fix)
      [] fix.fix_id \in m4_same_methods -> fix_method(e, fix)
      [] OTHER -> Raise(e, "ValueError")


(***************************************************************************)
(* Inputs of the interactive runs: the dataset, its metadata and the       *)
(* issues that main.py hands to InteractiveFixController.                  *)
(***************************************************************************)
MaxIssues == 2

ICols == <<N_id, N_age, N_city, N_salary, N_percentage>>

IRow(id, age, city, salary, percentage) ==
    [x \in Range(ICols) |->
        CASE x = N_id     -> id
          [] x = N_age    -> age
          [] x = N_city   -> city
          [] x = N_salary -> salary
          [] OTHER        -> percentage]

\* more than 40% of age and city missing; a salary between 0 and 1; negative
\* percentages
DsA ==
    [cols |-> ICols,
     rows |-> <<IRow(Num(1), Num(30), Str(<<"x","7">>), Half(1), Num(-10)),
                IRow(Num(1), NaN,     NaN,              Half(3), Num(-4)),
                IRow(Num(4), NaN,     NaN,              NaN,     Half(1))>>]

\* a quarter of age, city and salary missing; a repeated identifier
DsB ==
    [cols |-> ICols,
     rows |-> <<IRow(Num(2), Num(2), Str(<<"x">>), Num(1), Num(50)),
                IRow(Num(3), NaN,    Str(<<"x">>), NaN,    Num(50)),
                IRow(Num(3), Num(4), Str(<<"?">>), Num(1), Num(50)),
                IRow(Num(4), Num(6), NaN,          Num(4), Num(50))>>]

InteractiveDatasets == {DsA, DsB}

\* metadata["columns"][c] of MetadataExtractor(df).run(): the dtype of the
\* column and the mean of its numbers, NaN when it has none
MetadataColumn(cells) ==
    CASE \E i \in 1..Len(cells) : IsStr(cells[i]) ->
            [dtype |-> "object", mean |-> None]
      [] DropNa(cells) = <<>> -> [dtype |-> "float64", mean |-> NaN]
      [] \E i \in 1..Len(cells) : cells[i].k \in {"nan", "half"} ->
            [dtype |-> "float64",
             mean |-> OfTwice(SumSeq(Doubled(DropNa(cells))) \div Len(DropNa(cells)))]
      [] OTHER ->
            [dtype |-> "int64",
             mean |-> OfTwice(SumSeq(Doubled(cells)) \div Len(cells))]

MetadataExtractor_run(d) == [c \in Range(d.cols) |-> MetadataColumn(Column(d, c))]

IssuePool ==
    {Issue("MISSING_VAL", N_age, "Missing Data"),
     Issue("MISSING_VAL", N_city, "Missing Data"),
     Issue("MISSING_VAL", N_salary, "Missing Data"),
     Issue("EMPTY_TEXT", N_city, "Proxy Missingness"),
     Issue("NEG_AGE", N_percentage, "Numeric Validity"),
     Issue("PERCENT_VIOLATION", N_salary, "Range Violation"),
     Issue("ID_CLASH", N_id, "Identity Clash"),
     \* no strategy is registered for the type of this one
     Issue("FUTURE_DATE", N_age, "Time-Travel Error")}

IssueLists == SeqsUpTo(IssuePool, MaxIssues)

(***************************************************************************)
(* FixRecommendationEngine.generate_recommendations_for_issue: the issue   *)
(* goes to the strategy registered for its issue_type; a type without a    *)
(* strategy gives no fix.  The strategies of the types "Type Mismatch",    *)
(* "Extreme Outlier", "Format Divergence", "Invalid Date Format" and       *)
(* "Domain Constraint Violation" are not part of this model, and no issue  *)
(* of IssuePool has one of these types.                                    *)
(***************************************************************************)
generate_recommendations_for_issue(d, meta, issue) ==
    CASE issue.issue_type = "Missing Data" ->
            MissingValueStrategy_generate_fixes(d, meta, issue)
      [] issue.issue_type \in {"Proxy Missingness", "Structural Noise",
                               "Encoding Artifact"} ->
            TextCleaningStrategy_generate_fixes(d, issue)
      [] issue.issue_type \in {"Numeric Validity", "Range Violation"} ->
            NumericValidityStrategy_generate_fixes(d, issue)
      [] issue.issue_type = "Identity Clash" ->
            DuplicateStrategy_generate_fixes(d, issue)
      [] OTHER -> Fixes(<<>>)

(***************************************************************************)
(* Module_4_FixingEngine/InteractiveFixController.py, step by step.  The   *)
(* answers of the user are the inputs of the steps.                        *)
(***************************************************************************)
\* what the user types at "Select fix number: "
Typed(fixes) ==
    {[is_int |-> TRUE, n |-> n] : n \in (-Len(fixes))..(Len(fixes) + 1)}
        \cup {[is_int |-> FALSE, n |-> 0]}

\* selected = int(typed) - 1 and fixes[selected]: ValueError or IndexError
ValidSelection(fixes, typed) ==
    typed.is_int /\ -Len(fixes) <= typed.n - 1 /\ typed.n - 1 < Len(fixes)

\* fixes[selected] of a Python list: a negative index counts from the end
SelectedFix(fixes, typed) ==
    IF typed.n - 1 >= 0 THEN fixes[typed.n] ELSE fixes[Len(fixes) + typed.n]

\* nothing read at the prompt of line 97
NotAsked == [is_int |-> FALSE, n |-> 0]

Offer(issue, r) ==
    [issue |-> issue, fixes |-> r.fixes, exc |-> r.exc, asked |-> FALSE,
     typed |-> NotAsked]

InitI ==
    /\ \E d \in InteractiveDatasets :
          /\ heap = <<d>>
          /\ metadata = MetadataExtractor_run(d)
    /\ issues \in IssueLists
    /\ df = 0
    /\ execution_log = <<>>
    /\ id_columns = <<>>
    /\ original_row_count = -1
    /\ pc = "i_caller"
    /\ all_fixes = <<>>
    /\ recommended_fixes = <<>>
    /\ fix_idx = 0
    /\ attempts = <<>>
    /\ entry_df = heap[CallerRef]
    /\ returned = NotReturned
    /\ issue_idx = 0
    /\ recommender_df = 0
    /\ offered = <<>>
    /\ engine = NoEngine
    /\ check_idx = 0
    /\ detected_issues = NotDetected
    /\ report = NoReport

\* controller = InteractiveFixController(df, issues, metadata), and the call
\* of run up to the first issue
ConstructController ==
    /\ pc = "i_caller"
    /\ LET o == init_df(heap, CallerRef)
       IN /\ heap' = o.heap
          /\ df' = o.df
          /\ id_columns' = detect_id_columns(o.heap[o.df])
          /\ recommender_df' = o.df
    /\ execution_log' = <<>>
    /\ issue_idx' = 1
    /\ pc' = "i_loop"
    /\ UNCHANGED <<batch_vars, detection_vars, analysis_vars, attempts, entry_df, returned, issues, metadata,
                   offered>>

AtIssue == pc = "i_loop" /\ issue_idx <= Len(issues)

NextIssue ==
    /\ issue_idx' = issue_idx + 1
    /\ UNCHANGED <<heap, df, execution_log, id_columns, pc, batch_vars, detection_vars, analysis_vars, attempts,
                   entry_df, returned, issues, metadata, recommender_df>>

\* run without lines 64-70: the issue goes to the strategy, whose
\* self.df[column] raises
SkipDroppedColumn_unchecked ==
    /\ AtIssue
    /\ ~HasCol(heap[df], issues[issue_idx].column)
    /\ pc' = "i_raised"
    /\ UNCHANGED <<heap, df, execution_log, id_columns, batch_vars,
                   detection_vars, analysis_vars, attempts, entry_df, returned, issues,
                   issue_idx, metadata, recommender_df, offered>>

\* lines 64-70: the column of the issue is no longer in the working dataset
SkipDroppedColumn ==
    /\ AtIssue
    /\ ~HasCol(heap[df], issues[issue_idx].column)
    /\ NextIssue
    /\ UNCHANGED offered

\* lines 79-83: the answer is not 'y'
DeclineIssue ==
    /\ AtIssue
    /\ HasCol(heap[df], issues[issue_idx].column)
    /\ NextIssue
    /\ UNCHANGED offered

\* the recommender, for the issue that the user wants fixed
Recommendation ==
    generate_recommendations_for_issue(heap[recommender_df], metadata,
                                       issues[issue_idx])

Answered(r) ==
    /\ AtIssue
    /\ HasCol(heap[df], issues[issue_idx].column)
    /\ offered' = Append(offered, Offer(issues[issue_idx], r))

\* the same, with what the user typed at "Select fix number: " (line 97)
AnsweredTyping(r, typed) ==
    /\ AtIssue
    /\ HasCol(heap[df], issues[issue_idx].column)
    /\ offered' = Append(offered, [Offer(issues[issue_idx], r) EXCEPT
                                      !.asked = TRUE, !.typed = typed])

\* line 85 raises: nothing in run catches it
StrategyRaisesWith(r) ==
    /\ Answered(r)
    /\ r.exc # "none"
    /\ pc' = "i_raised"
    /\ UNCHANGED <<heap, df, execution_log, id_columns, batch_vars, detection_vars, analysis_vars, attempts,
                   entry_df, returned, issues, issue_idx, metadata,
                   recommender_df>>

StrategyRaises == StrategyRaisesWith(Recommendation)

\* lines 87-89
NoFixAvailableWith(r) ==
    /\ Answered(r)
    /\ r.exc = "none"
    /\ r.fixes = <<>>
    /\ NextIssue

NoFixAvailable == NoFixAvailableWith(Recommendation)

\* lines 96-101
InvalidSelectionWith(r) ==
    /\ AtIssue
    /\ r.exc = "none"
    /\ r.fixes # <<>>
    /\ \E typed \in Typed(r.fixes) :
          /\ ~ValidSelection(r.fixes, typed)
          /\ AnsweredTyping(r, typed)
    /\ NextIssue

InvalidSelection == InvalidSelectionWith(Recommendation)

\* line 103: self.executor.apply_fix(selected_fix); the exception of a
\* method, or of apply_fix itself, leaves run
Applied(fix, r) ==
    /\ heap' = r.heap
    /\ df' = r.df
    /\ execution_log' = r.log
    /\ attempts' = Append(attempts,
          [fix |-> fix,
           outcome |-> IF r.exc # "none" THEN r.exc ELSE "done",
           before |-> heap[df], after |-> r.heap[r.df],
           lost_before |-> 0,
           log_before |-> Len(execution_log), log_after |-> Len(r.log)])
    /\ IF r.exc # "none"
       THEN pc' = "i_raised" /\ issue_idx' = issue_idx
       ELSE pc' = "i_loop" /\ issue_idx' = issue_idx + 1

ApplyFix(fix) ==
    \E chance \in Chances(heap[df], fix) : Applied(fix, apply_fix(Self, fix, chance))

ApplySelectedWith(r) ==
    /\ AtIssue
    /\ r.exc = "none"
    /\ r.fixes # <<>>
    /\ \E typed \in Typed(r.fixes) :
          /\ ValidSelection(r.fixes, typed)
          /\ AnsweredTyping(r, typed)
          /\ ApplyFix(SelectedFix(r.fixes, typed))
    /\ UNCHANGED <<id_columns, batch_vars, detection_vars, analysis_vars, entry_df, returned, issues, metadata,
                   recommender_df>>

ApplySelected == ApplySelectedWith(Recommendation)

\* line 107
ReturnRun ==
    /\ pc = "i_loop"
    /\ issue_idx > Len(issues)
    /\ returned' = [df |-> df, log |-> execution_log]
    /\ pc' = "i_returned"
    /\ UNCHANGED <<heap, df, execution_log, id_columns, batch_vars, detection_vars, analysis_vars, attempts,
                   entry_df, issues, issue_idx, metadata, recommender_df, offered>>

NextI ==
    \/ ConstructController
    \/ SkipDroppedColumn
    \/ DeclineIssue
    \/ StrategyRaises
    \/ NoFixAvailable
    \/ InvalidSelection
    \/ ApplySelected
    \/ ReturnRun

SpecInteractive == InitI /\ [][NextI]_vars

\* the two entry points of the executor
SpecAll == (Init \/ InitI) /\ [][Next \/ NextI]_vars

(***************************************************************************)
(* Properties of the recommender, of the interactive runs, and of the two  *)
(* entry points together.                                                  *)
(***************************************************************************)
\* C1: whatever the issue and the dataset, the list that the strategy of the
\* issue returned has at most one fix with is_recommended = true.
C1_AtMostOneRecommended ==
    \A k \in 1..Len(offered) : Len(Recommended(offered[k].fixes)) <= 1

\* the keys of fix_method_map in apply_fix of Module_4_FixingEngine
m4_fix_method_map ==
    fix_method_map \cup
        {"FIX_STOCHASTIC_FILL", "FIX_SWAP_LOGICAL_DATES", "FIX_STANDARDIZE_PHONE",
         "FIX_EMAIL_TYPOS", "FIX_CLIP_PERCENTAGE", "FIX_EXTRACT_NUMERIC_IMPUTE",
         "FIX_WINSORIZE", "FIX_KEEP_LAST_ID", "FIX_KEEP_COMPLETE",
         "FIX_DROP_TEXT_ROWS", "FIX_DROP_INVALID_ROWS"}

\* the attempt was made by the controller, not by the batch call
Interactive == recommender_df # 0

Unregistered(a) ==
    a.fix.fix_id \notin (IF Interactive THEN m4_fix_method_map ELSE fix_method_map)

\* C8: in the batch call and in the interactive run, a fix whose fix_id has no
\* registered implementation is skipped: the dataset and the log are as they
\* were, no exception leaves the call, and the run goes on to what remains.
C8_UnknownFixSkipped ==
    \A i \in 1..Len(attempts) :
       Unregistered(attempts[i]) =>
          /\ attempts[i].after = attempts[i].before
          /\ attempts[i].log_after = attempts[i].log_before
          /\ attempts[i].outcome \in {"done", "no implementation"}
          /\ pc \notin {"raised", "i_raised"}

C9_CopyOnEntry == heap[CallerRef] = entry_df

\* an interactive run returned after a fix wrote the working dataset in place,
\* and the dataset it returned differs from that of the caller
C9_Witness ==
    /\ pc = "i_returned"
    /\ heap[returned.df] # heap[CallerRef]
    /\ \E i \in 1..Len(attempts) :
          /\ attempts[i].outcome = "done"
          /\ attempts[i].before # attempts[i].after
          /\ returned.df = recommender_df

(***************************************************************************)
(* Module_3_IssueDetection/DetectionEngine.py.  An issue is the dict of    *)
(* DataIssue.to_dict without its severity, description and examples.       *)
(***************************************************************************)
AnyKeyword(col, keywords) == \E key \in keywords : Contains(StrLower(col), key)

\* _detect_date_columns
date_keywords ==
    {<<"d","a","t","e">>, <<"t","i","m","e">>,
     <<"t","i","m","e","s","t","a","m","p">>,
     <<"d","a","t","e","t","i","m","e">>, <<"c","r","e","a","t","e","d">>,
     <<"u","p","d","a","t","e","d">>, <<"j","o","i","n","e","d">>,
     <<"d","o","b">>, <<"b","i","r","t","h">>, <<"y","e","a","r">>,
     <<"m","o","n","t","h">>, <<"d","a","y">>}

\* _detect_numeric_columns
numeric_keywords ==
    {<<"a","g","e">>, <<"s","a","l","a","r","y">>, <<"p","r","i","c","e">>,
     <<"c","o","s","t">>, <<"a","m","o","u","n","t">>,
     <<"c","o","u","n","t">>, <<"p","c","t">>,
     <<"p","e","r","c","e","n","t">>, <<"r","a","t","e">>,
     <<"s","c","o","r","e">>, <<"i","n","c","o","m","e">>,
     <<"r","e","v","e","n","u","e">>, <<"f","e","e">>,
     <<"p","a","y","m","e","n","t">>, <<"w","a","g","e">>,
     <<"h","e","i","g","h","t">>, <<"w","e","i","g","h","t">>,
     <<"d","i","s","t","a","n","c","e">>,
     <<"q","u","a","n","t","i","t","y">>, <<"t","o","t","a","l">>}

\* _detect_numeric_columns
categorical_keywords ==
    {<<"n","a","m","e">>, <<"e","m","a","i","l">>,
     <<"c","o","u","n","t","r","y">>, <<"c","i","t","y">>,
     <<"a","d","d","r","e","s","s">>, <<"s","t","a","t","e">>,
     <<"r","e","g","i","o","n">>, <<"c","a","t","e","g","o","r","y">>,
     <<"t","y","p","e">>, <<"s","t","a","t","u","s">>,
     <<"g","e","n","d","e","r">>, <<"t","i","t","l","e">>,
     <<"d","e","s","c","r","i","p","t","i","o","n">>,
     <<"r","e","m","a","r","k">>, <<"c","o","m","m","e","n","t">>,
     <<"n","o","t","e">>}

\* _detect_monetary_columns
monetary_keywords ==
    {<<"s","a","l","a","r","y">>, <<"p","r","i","c","e">>,
     <<"c","o","s","t">>, <<"a","m","o","u","n","t">>,
     <<"p","a","y","m","e","n","t">>, <<"w","a","g","e">>,
     <<"i","n","c","o","m","e">>, <<"r","e","v","e","n","u","e">>,
     <<"f","e","e">>}

\* check_range_violations
range_keywords ==
    {<<"p","c","t">>, <<"p","e","r","c","e","n","t">>,
     <<"p","r","o","b","a","b","i","l","i","t","y">>}

\* check_special_characters
skip_special_char_check ==
    {<<"e","m","a","i","l">>, <<"u","r","l">>,
     <<"w","e","b","s","i","t","e">>, <<"l","i","n","k">>,
     <<"p","h","o","n","e">>, <<"c","o","n","t","a","c","t">>}

\* check_proxy_missingness
tokens ==
    {<<"?">>, <<"u","n","k","n","o","w","n">>, <<"n","/","a">>,
     <<"n","o","n","e">>, <<"n","u","l","l">>, <<".">>}


\* select_dtypes(include=['object']): a column that holds a text
IsObjectDtype(d, c) == ~IsNumericDtype(d, c)

SelectCols(d, Keep(_)) == FilterSeq(d.cols, {i \in 1..Len(d.cols) : Keep(d.cols[i])})

\* a time stamp of ISO 8601 with the zone Z: pd.to_datetime gives it the zone UTC
W_midnight_utc == <<"T","0","0",":","0","0",":","0","0","Z">>

IsStamp(s) ==
    /\ Len(s) > Len(W_midnight_utc)
    /\ SubSeq(s, Len(s) - Len(W_midnight_utc) + 1, Len(s)) = W_midnight_utc
    /\ ParseFmt(SubSeq(s, 1, Len(s) - Len(W_midnight_utc)), Fmt("YMD", "-")).ok

StampDate(s) == ParseFmt(SubSeq(s, 1, Len(s) - Len(W_midnight_utc)), Fmt("YMD", "-"))

\* the format of a stamp, inferred from the first non-null value, is required
\* of every value
StampsOnly(cells) ==
    [i \in 1..Len(cells) |->
        IF IsStr(cells[i]) /\ IsStamp(cells[i].s) THEN StampDate(cells[i].s) ELSE NaT]

FirstIsStamp(cells, k) == k > 0 /\ IsStr(cells[k]) /\ IsStamp(cells[k].s)

\* pd.to_datetime(cells, errors='coerce') with the zone of the result: aware
\* (datetime64[ns, UTC]) when the inferred format carries the zone
Datetimes(cells, aware) ==
    [aware |-> aware, at |-> IF aware THEN StampsOnly(cells) ELSE ToDatetime(cells)]

to_datetime(cells) == Datetimes(cells, FirstIsStamp(cells, FirstNonNull(cells)))

\* parsed.notna().mean() > 0.3
NotNaOver30(at) ==
    Len(at) > 0 /\ 10 * Cardinality({i \in 1..Len(at) : at[i].ok}) > 3 * Len(at)

\* str.contains(r'\d{1,4}[-/\.]\d{1,2}[-/\.]\d{1,4}'): a digit, a separator,
\* one or two digits, a separator, a digit
DateSeparators == {"-", "/", "."}

DatePatternAt(s, p) ==
    /\ IsDigitChar(s[p])
    /\ s[p + 1] \in DateSeparators
    /\ IsDigitChar(s[p + 2])
    /\ \/ s[p + 3] \in DateSeparators /\ IsDigitChar(s[p + 4])
       \/ /\ p + 5 <= Len(s)
          /\ IsDigitChar(s[p + 3])
          /\ s[p + 4] \in DateSeparators
          /\ IsDigitChar(s[p + 5])

HasDatePattern(s) == \E p \in 1..(Len(s) - 4) : DatePatternAt(s, p)

\* has_date_pattern > 0.3 over the texts of the non-null values
DatePatternOver30(sample) ==
    10 * Cardinality({i \in 1..Len(sample) : HasDatePattern(AsStr(sample[i]))})
        > 3 * Len(sample)

\* lines 36-47: a keyword in the name and more than 30% of the non-null
\* values parsed
DateByKeyword(cells) ==
    DropNa(cells) # <<>> /\ NotNaOver30(to_datetime(DropNa(cells)).at)

\* lines 49-63: an object column whose values look like dates
DateByPattern(d, c) ==
    /\ IsObjectDtype(d, c)
    /\ DropNa(Column(d, c)) # <<>>
    /\ DatePatternOver30(DropNa(Column(d, c)))
    /\ NotNaOver30(to_datetime(Column(d, c)).at)

\* line 40: a column of the keywords without a value is left at once
IsDateColumn(d, c) ==
    IF AnyKeyword(c, date_keywords)
    THEN /\ DropNa(Column(d, c)) # <<>>
         /\ DateByKeyword(Column(d, c)) \/ DateByPattern(d, c)
    ELSE DateByPattern(d, c)

engine_detect_date_columns(d) == SelectCols(d, LAMBDA c : IsDateColumn(d, c))

\* numeric_values.notna().sum() / len(self.df) >= 0.3
NumericShareOver30(cells) ==
    /\ Len(cells) > 0
    /\ 10 * Cardinality({i \in 1..Len(cells) : IsNum(ToNumeric(cells[i]))})
          >= 3 * Len(cells)

IsNumericColumn(d, c) ==
    /\ ~AnyKeyword(c, categorical_keywords)
    /\ \/ IsNumericDtype(d, c)
       \/ AnyKeyword(c, numeric_keywords) /\ NumericShareOver30(Column(d, c))

engine_detect_numeric_columns(d) == SelectCols(d, LAMBDA c : IsNumericColumn(d, c))

engine_detect_monetary_columns(d) ==
    SelectCols(d, LAMBDA c : AnyKeyword(c, monetary_keywords))

engine_detect_age_columns(d) == SelectCols(d, LAMBDA c : Contains(StrLower(c), W_age))

\* IssueDetectionEngine(df)
IssueDetectionEngine(d) ==
    [date_columns     |-> engine_detect_date_columns(d),
     numeric_columns  |-> engine_detect_numeric_columns(d),
     id_columns       |-> detect_id_columns(d),
     monetary_columns |-> engine_detect_monetary_columns(d),
     age_columns      |-> engine_detect_age_columns(d),
     issues           |-> <<>>]

\* what a check ends with: the issues it appended, or the exception that
\* left it, with the issues appended before
Found(found)       == [found |-> found, exc |-> "none"]
Failing(found, exc) == [found |-> found, exc |-> exc]

RECURSIVE Combine(_)
\* the results of the columns one after the other, up to the first exception
Combine(rs) ==
    IF rs = <<>> THEN Found(<<>>)
    ELSE IF Head(rs).exc # "none" THEN Head(rs)
    ELSE Failing(Head(rs).found \o Combine(Tail(rs)).found, Combine(Tail(rs)).exc)

\* for col in cols: <the check of one column>
ForEach(cols, CheckOf(_)) == Combine([i \in 1..Len(cols) |-> CheckOf(cols[i])])

\* one issue when the condition holds
IssueIf(cond, issue_id, column, issue_type) ==
    Found(IF cond THEN <<Issue(issue_id, column, issue_type)>> ELSE <<>>)

AnyCell(cells, P(_)) == \E i \in 1..Len(cells) : P(cells[i])

ObjectCols(d) == SelectCols(d, LAMBDA c : IsObjectDtype(d, c))

InSeq(x, s) == x \in Range(s)

\* 1. check_missing_data
check_missing_data(d) ==
    ForEach(d.cols, LAMBDA col :
        IssueIf(AnyCell(Column(d, col), IsNa), "MISSING_VAL", col, "Missing Data"))

\* the object columns that are not date columns
TextCols(d, eng) ==
    SelectCols(d, LAMBDA c : IsObjectDtype(d, c) /\ ~InSeq(c, eng.date_columns))

IsToken(c) == StrStrip(StrLower(AsStr(c))) \in tokens

\* 2. check_proxy_missingness
check_proxy_missingness(d, eng) ==
    ForEach(TextCols(d, eng), LAMBDA col :
        IssueIf(AnyCell(Column(d, col), IsToken),
                "PROXY_MISSING", col, "Proxy Missingness"))

\* 3. check_empty_string_variants: the text of a null is 'nan'
check_empty_string_variants(d, eng) ==
    ForEach(TextCols(d, eng), LAMBDA col :
        IssueIf(AnyCell(Column(d, col), LAMBDA c : IsEmptyText(AsStr(c))),
                "EMPTY_TEXT", col, "Proxy Missingness"))

NumericBelow0(c) == IsNum(ToNumeric(c)) /\ Lt(ToNumeric(c), 0)

\* 4. check_numeric_validity
check_numeric_validity(d, eng) ==
    ForEach(SelectCols([cols |-> eng.numeric_columns],
                       LAMBDA c : Contains(StrLower(c), W_age)),
            LAMBDA col :
                IssueIf(AnyCell(Column(d, col), NumericBelow0),
                        "NEG_AGE", col, "Numeric Validity"))

\* 5. check_range_violations
check_range_violations(d) ==
    ForEach(SelectCols(d, LAMBDA c : AnyKeyword(c, range_keywords)),
            LAMBDA col :
                IssueIf(AnyCell(Column(d, col),
                                LAMBDA c : IsNum(ToNumeric(c)) /\ Gt(ToNumeric(c), 100)),
                        "RANGE_EXCEEDED", col, "Range Violation"))

ImpossibleAges(d, eng) ==
    ForEach(eng.age_columns, LAMBDA col :
        IssueIf(AnyCell(Column(d, col),
                        LAMBDA c : IsNum(ToNumeric(c)) /\ IsImpossibleAge(ToNumeric(c))),
                "IMPOSSIBLE_AGE", col, "Domain Constraint Violation"))

InvalidMonetary(d, eng) ==
    ForEach(eng.monetary_columns, LAMBDA col :
        IssueIf(AnyCell(Column(d, col),
                        LAMBDA c : IsNum(ToNumeric(c)) /\ Le(ToNumeric(c), 0)),
                "INVALID_MONETARY", col, "Domain Constraint Violation"))

\* 6. check_domain_constraints: the ages, then the monetary columns
check_domain_constraints(d, eng) ==
    Found(ImpossibleAges(d, eng).found \o InvalidMonetary(d, eng).found)

\* datetime.now()
Now == Date(2026, 1, 1)

\* dates[dates > datetime.now()]: the comparison of aware dates with the
\* naive datetime.now() raises TypeError
TimeTravel(col, dates) ==
    IF dates.aware THEN Failing(<<>>, "TypeError")
    ELSE IssueIf(\E i \in 1..Len(dates.at) : DateLess(Now, dates.at[i]),
                 "FUTURE_DATE", col, "Time-Travel Error")

\* 7. check_time_travel
check_time_travel(d, eng) ==
    ForEach(eng.date_columns, LAMBDA col : TimeTravel(col, to_datetime(Column(d, col))))

\* the formats of check_invalid_date_format
detection_formats ==
    <<Fmt("MDY", "/"), Fmt("DMY", "/"), Fmt("YMD", "."), Fmt("DMY", "."),
      Fmt("YMD", "-"), Fmt("DMY", "-")>>

\* the dates after the loop over the formats; the fillna of aware dates with
\* the naive ones of a format raises inside the try and fills nothing
AfterFormats(cells, dates) ==
    IF dates.aware THEN dates.at ELSE StdDates(cells, dates.at, detection_formats)

\* 8. check_invalid_date_format
check_invalid_date_format(d, eng) ==
    ForEach(eng.date_columns, LAMBDA col :
        IssueIf(Unparsed(Column(d, col),
                         AfterFormats(Column(d, col), to_datetime(Column(d, col)))) # {},
                "INVALID_DATE_FORMAT", col, "Invalid Date Format"))

SeparatorsUsed(valid_dates) ==
    {sep \in DateSeparators :
        \E i \in 1..Len(valid_dates) : HasCharIn(AsStr(valid_dates[i]), {sep})}

\* 9. check_date_format_inconsistency
check_date_format_inconsistency(d, eng) ==
    ForEach(eng.date_columns, LAMBDA col :
        IssueIf(/\ Len(DropNa(Column(d, col))) >= 2
                /\ Cardinality(SeparatorsUsed(DropNa(Column(d, col)))) > 1,
                "DATE_FORMAT_MIXED", col, "Format Divergence"))

\* self.df[start > end]: an aware column against a naive one raises TypeError
SequenceOf(s_col, e_col, starts, ends) ==
    IF starts.aware # ends.aware THEN Failing(<<>>, "TypeError")
    ELSE IssueIf(\E i \in 1..Len(starts.at) : DateLess(ends.at[i], starts.at[i]),
                 "SEQ_ERROR", s_col \o <<"/">> \o e_col, "Logical Sequence")

FirstSequence(d, s_cols, e_cols) ==
    IF s_cols = <<>> \/ e_cols = <<>> THEN Found(<<>>)
    ELSE SequenceOf(Head(s_cols), Head(e_cols),
                    to_datetime(Column(d, Head(s_cols))),
                    to_datetime(Column(d, Head(e_cols))))

\* 10. check_logical_sequence
check_logical_sequence(d) ==
    FirstSequence(d, SelectCols(d, LAMBDA c : Contains(StrLower(c), N_start)),
                     SelectCols(d, LAMBDA c : Contains(StrLower(c), N_end)))

\* 11. check_structural_noise
check_structural_noise(d) ==
    ForEach(ObjectCols(d), LAMBDA col :
        IssueIf(AnyCell(Column(d, col), LAMBDA c : HasEdgeSpace(AsStr(c))),
                "WHITESPACE", col, "Structural Noise"))

\* 12. check_special_characters
check_special_characters(d, eng) ==
    ForEach(SelectCols([cols |-> TextCols(d, eng)],
                       LAMBDA c : ~AnyKeyword(c, skip_special_char_check)),
            LAMBDA col :
                IssueIf(AnyCell(Column(d, col),
                                LAMBDA c : HasCharIn(AsStr(c), SpecialCharsNoAt)),
                        "SPECIAL_CHARS", col, "Structural Noise"))

\* 13. check_encoding_artifacts
check_encoding_artifacts(d) ==
    ForEach(ObjectCols(d), LAMBDA col :
        IssueIf(AnyCell(Column(d, col), LAMBDA c : HasCharIn(AsStr(c), NonAsciiChars)),
                "ENCODING_JUNK", col, "Encoding Artifact"))

\* 14. check_type_mismatch: the text of a null, 'nan', has letters
check_type_mismatch(d, eng) ==
    ForEach(eng.numeric_columns, LAMBDA col :
        IssueIf(AnyCell(Column(d, col), LAMBDA c : HasAlpha(AsStr(c))),
                "WORD_AS_NUMBER", col, "Type Mismatch"))

CaseDiverges(vals) ==
    /\ AnyCell(vals, LAMBDA c : StrIsUpper(AsStr(c)))
    /\ AnyCell(vals, LAMBDA c : StrIsLower(AsStr(c)))

\* 15. check_format_divergence
check_format_divergence(d, eng) ==
    ForEach(SelectCols([cols |-> TextCols(d, eng)],
                       LAMBDA c : ~InSeq(c, eng.id_columns)),
            LAMBDA col :
                IssueIf(CaseDiverges(DropNa(Column(d, col))),
                        "CASE_DIVERGE", col, "Format Divergence"))

\* Series.duplicated().any(): nulls are equal to each other
HasDuplicate(cells) == \E i, j \in 1..Len(cells) : i < j /\ cells[i] = cells[j]

\* 16. check_identity_clash
check_identity_clash(d, eng) ==
    ForEach(eng.id_columns, LAMBDA col :
        IssueIf(HasDuplicate(Column(d, col)), "ID_CLASH", col, "Identity Clash"))

\* at least three values, a standard deviation above 0, a z-score above 3
HasZOutlier(vals) ==
    /\ Len(vals) >= 3
    /\ SumSqDev(vals) > 0
    /\ \E i \in 1..Len(vals) : ~ZWithin3(vals[i], vals)

\* the check without `or col in self.age_columns`
check_extreme_outliers_of_ages(d, eng) ==
    ForEach(SelectCols(d, LAMBDA c : /\ IsNumericDtype(d, c)
                                     /\ ~InSeq(c, eng.id_columns)),
            LAMBDA col :
                IssueIf(HasZOutlier(Doubled(DropNa(Column(d, col)))),
                        "Z_OUTLIER", col, "Extreme Outlier"))

\* 17. check_extreme_outliers
check_extreme_outliers(d, eng) ==
    ForEach(SelectCols(d, LAMBDA c : /\ IsNumericDtype(d, c)
                                     /\ ~InSeq(c, eng.id_columns)
                                     /\ ~InSeq(c, eng.age_columns)),
            LAMBDA col :
                IssueIf(HasZOutlier(Doubled(DropNa(Column(d, col)))),
                        "Z_OUTLIER", col, "Extreme Outlier"))

\* the battery of run_all_checks, in its order
NChecks == 17

run_check(k, d, eng) ==
    CASE k = 1  -> check_missing_data(d)
      [] k = 2  -> check_proxy_missingness(d, eng)
      [] k = 3  -> check_empty_string_variants(d, eng)
      [] k = 4  -> check_numeric_validity(d, eng)
      [] k = 5  -> check_range_violations(d)
      [] k = 6  -> check_domain_constraints(d, eng)
      [] k = 7  -> check_time_travel(d, eng)
      [] k = 8  -> check_invalid_date_format(d, eng)
      [] k = 9  -> check_date_format_inconsistency(d, eng)
      [] k = 10 -> check_logical_sequence(d)
      [] k = 11 -> check_structural_noise(d)
      [] k = 12 -> check_special_characters(d, eng)
      [] k = 13 -> check_encoding_artifacts(d)
      [] k = 14 -> check_type_mismatch(d, eng)
      [] k = 15 -> check_format_divergence(d, eng)
      [] k = 16 -> check_identity_clash(d, eng)
      [] OTHER  -> check_extreme_outliers(d, eng)

(***************************************************************************)
(* Inputs of the detection runs, and IssueDetectionEngine(df) followed by  *)
(* run_all_checks, one check after the other.                              *)
(***************************************************************************)
DetectionCols == <<N_id, N_age, N_city, N_joined, N_start, N_end>>

DRow(id, age, city, joined, start, end) ==
    [x \in Range(DetectionCols) |->
        CASE x = N_id     -> id
          [] x = N_age    -> age
          [] x = N_city   -> city
          [] x = N_joined -> joined
          [] x = N_start  -> start
          [] OTHER        -> end]

W_jan5  == <<"2","0","2","3","-","0","1","-","0","5">>
W_feb1  == <<"2","0","2","3","-","0","2","-","0","1">>
W_mar1  == <<"2","0","2","3","-","0","3","-","0","1">>
W_slash == <<"0","1","/","0","5","/","2","0","2","3">>
W_stamp == <<"2","0","2","4","-","0","1","-","0","1">> \o W_midnight_utc

DetectionRowPool ==
    {DRow(Num(1), Num(25), Str(<<"x">>), Str(W_jan5), Str(W_jan5), Str(W_feb1)),
     \* a negative age, a placeholder, a stamp with a zone, a start after the end
     DRow(Num(2), Num(-5), Str(<<" ","?">>), Str(W_stamp), Str(W_mar1), Str(W_feb1)),
     DRow(Num(2), NaN, NaN, NaN, Str(W_stamp), Str(W_feb1)),
     DRow(Num(4), Str(<<"t","w","e","n","t","y">>), Str(<<"X">>), Str(W_slash),
          NaN, NaN)}

\* main.py leaves an empty dataset before the detection
DetectionDatasets ==
    {[cols |-> DetectionCols, rows |-> r] :
        r \in SeqsUpTo(DetectionRowPool, MaxRows) \ {<<>>}}

InitD ==
    /\ heap \in {<<d>> : d \in DetectionDatasets}
    /\ df = 0
    /\ execution_log = <<>>
    /\ id_columns = <<>>
    /\ original_row_count = -1
    /\ pc = "d_caller"
    /\ all_fixes = <<>>
    /\ recommended_fixes = <<>>
    /\ fix_idx = 0
    /\ attempts = <<>>
    /\ entry_df = heap[CallerRef]
    /\ returned = NotReturned
    /\ issues = <<>>
    /\ issue_idx = 0
    /\ metadata = <<>>
    /\ recommender_df = 0
    /\ offered = <<>>
    /\ engine = NoEngine
    /\ check_idx = 0
    /\ detected_issues = NotDetected
    /\ report = NoReport

executor_vars == <<heap, df, execution_log, id_columns, attempts, entry_df, returned>>

\* engine = IssueDetectionEngine(clean_df), and the call of run_all_checks up
\* to its first check; the engine keeps the dataset of the caller itself
ConstructEngine ==
    /\ pc = "d_caller"
    /\ engine' = IssueDetectionEngine(heap[CallerRef])
    /\ check_idx' = 1
    /\ pc' = "d_checks"
    /\ UNCHANGED <<executor_vars, batch_vars, controller_vars, analysis_vars, detected_issues>>

\* a check appends its issues to self.issues; its exception leaves
\* run_all_checks, which has no try
Checked(r) ==
    /\ engine' = [engine EXCEPT !.issues = @ \o r.found]
    /\ IF r.exc # "none"
       THEN pc' = "d_raised" /\ check_idx' = check_idx
       ELSE pc' = "d_checks" /\ check_idx' = check_idx + 1

\* the next check of the battery
RunCheck ==
    /\ pc = "d_checks"
    /\ check_idx <= NChecks
    /\ Checked(run_check(check_idx, heap[CallerRef], engine))
    /\ UNCHANGED <<executor_vars, batch_vars, controller_vars, analysis_vars, detected_issues>>

\* return self.issues
ReturnIssues ==
    /\ pc = "d_checks"
    /\ check_idx > NChecks
    /\ detected_issues' = [done |-> TRUE, issues |-> engine.issues]
    /\ pc' = "d_returned"
    /\ UNCHANGED <<executor_vars, batch_vars, controller_vars, analysis_vars, engine, check_idx>>

NextD == ConstructEngine \/ RunCheck \/ ReturnIssues

SpecDetection == InitD /\ [][NextD]_vars

\* C10: run_all_checks never raises: a check that cannot evaluate a column
\* gives no issue for it, the later checks of the battery are still made, and
\* the call returns the issues found.
C10_ChecksContained ==
    /\ pc # "d_raised"
    /\ pc = "d_returned" =>
          /\ check_idx = NChecks + 1
          /\ detected_issues = [done |-> TRUE, issues |-> engine.issues]

(***************************************************************************)
(* FixingEngine/FixRecommendationEngine.py: the batch recommender, step by *)
(* step.  Its strategies read the dataset of the caller itself.            *)
(***************************************************************************)
\* the keys of self.strategies
strategies ==
    {"Missing Data", "Proxy Missingness", "Numeric Validity", "Range Violation",
     "Type Mismatch", "Extreme Outlier", "Identity Clash", "Structural Noise",
     "Encoding Artifact", "Format Divergence", "Invalid Date Format",
     "Domain Constraint Violation"}

\* self.strategies.get(issue_type, <the strategy of the duplicates>): a
\* default in the place of None
strategies_get_default(issue_type) ==
    IF issue_type \in strategies THEN issue_type ELSE "Identity Clash"

\* self.strategies.get(issue_type): None when the type is no key
strategies_get(issue_type) ==
    IF issue_type \in strategies THEN issue_type ELSE "None"

\* FixingEngine/fix_strategies/NumericValidityStrategy.py: the if / elif
\* chain, which has neither the keyword block nor the percent branch
fe_ByIssueId(numeric_col, issue) ==
    CASE InId("NEG_AGE", issue.issue_id) \/ IsAgeColumn(issue.column) ->
            NegativeFixes(numeric_col, issue)
      [] InId("RANGE_EXCEEDED", issue.issue_id) -> RangeFixes(numeric_col, issue)
      [] OTHER -> <<>>

fe_NumericValidityStrategy_generate_fixes(d, issue) ==
    IF ~HasCol(d, issue.column) THEN Raises("KeyError")
    ELSE Fixes(fe_ByIssueId(NumericOf(Column(d, issue.column)), issue))

\* strategy.generate_fixes(issue), for the strategy registered under a key.
\* The strategies of "Type Mismatch", "Extreme Outlier", "Format
\* Divergence" and "Invalid Date Format" are not part of this model, and no
\* issue of the inputs has one of these types.
\* fix_strategies/DomainValidationStrategy.py: numeric_col is
\* pd.to_numeric(self.df[column], errors='coerce')
NumericCol(d, column) == [i \in 1..NRows(d) |-> ToNumeric(d.rows[i][column])]

ValidAges(numeric_col) ==
    FilterSeq(numeric_col,
              {i \in 1..Len(numeric_col) :
                  IsNum(numeric_col[i]) /\ ~IsImpossibleAge(numeric_col[i])})

\* int(round(valid_ages.median())) if not valid_ages.empty else 30
MedianAge(valid_ages) ==
    IF valid_ages = <<>> THEN Num(30) ELSE IntRound(MedianOf2(Doubled(valid_ages)))

\* valid_values.median() if not valid_values.empty else 50000
MedianMonetary(valid_values) ==
    IF valid_values = <<>> THEN Num(50000) ELSE MedianOf2(Doubled(valid_values))

ImpossibleAgeFixes(issue, median_age) ==
    <<DataFix("FIX_IMPOSSIBLE_AGE_TO_MEDIAN", issue.issue_id, issue.column, TRUE,
              [NoMetadata EXCEPT !.median_value = median_age, !.round_to_int = TRUE]),
      OneFix("FIX_IMPOSSIBLE_AGE_TO_NAN", issue, FALSE),
      OneFix("FIX_DROP_IMPOSSIBLE_AGE_ROWS", issue, FALSE)>>

InvalidMonetaryFixes(issue, median_value) ==
    <<DataFix("FIX_ZERO_MONETARY_TO_MEDIAN", issue.issue_id, issue.column, TRUE,
              [NoMetadata EXCEPT !.median_value = median_value]),
      OneFix("FIX_ZERO_MONETARY_TO_NAN", issue, FALSE),
      OneFix("FIX_DROP_ZERO_MONETARY_ROWS", issue, FALSE)>>

DomainValidationStrategy_generate_fixes(d, issue) ==
    IF ~HasCol(d, issue.column) THEN Raises("KeyError")
    ELSE CASE InId("IMPOSSIBLE_AGE", issue.issue_id) ->
                Fixes(ImpossibleAgeFixes(issue,
                          MedianAge(ValidAges(NumericCol(d, issue.column)))))
           [] InId("INVALID_MONETARY", issue.issue_id) ->
                Fixes(InvalidMonetaryFixes(issue,
                          MedianMonetary(PositiveOf(NumericCol(d, issue.column)))))
           [] OTHER -> Fixes(<<>>)

\* DateFormatStrategy.generate_fixes, for the issues of the type "Format
\* Divergence": the branch on the issue_id for mixed date formats, the one
\* for inverted dates, and no fix for any other issue_id.  (The branch for
\* INVALID_DATE_FORMAT belongs to issues of the type "Invalid Date Format".)
DateFormatStrategy_generate_fixes(d, issue) ==
    CASE InId("DATE_FORMAT_MIXED", issue.issue_id)
           \/ InId("FORMAT_DIVERGENCE", issue.issue_id) ->
              IF ~HasCol(d, issue.column) THEN Raises("KeyError")
              ELSE Fixes(<<OneFix("FIX_STANDARDIZE_DATE_FORMAT", issue, TRUE)>>)
      [] InId("DATE_SEQUENCE_VIOLATION", issue.issue_id) ->
              Fixes(<<OneFix("FIX_SWAP_LOGICAL_DATES", issue, TRUE)>>)
      [] OTHER -> Fixes(<<>>)

generate_fixes(strategy, d, meta, issue) ==
    CASE strategy = "Missing Data" ->
            MissingValueStrategy_generate_fixes(d, meta, issue)
      [] strategy \in {"Proxy Missingness", "Structural Noise",
                       "Encoding Artifact"} ->
            TextCleaningStrategy_generate_fixes(d, issue)
      [] strategy \in {"Numeric Validity", "Range Violation"} ->
            fe_NumericValidityStrategy_generate_fixes(d, issue)
      [] strategy = "Identity Clash" ->
            DuplicateStrategy_generate_fixes(d, issue)
      [] strategy = "Domain Constraint Violation" ->
            DomainValidationStrategy_generate_fixes(d, issue)
      [] strategy = "Format Divergence" ->
            DateFormatStrategy_generate_fixes(d, issue)
      [] OTHER -> Fixes(<<>>)

InitR ==
    /\ \E d \in InteractiveDatasets :
          /\ heap = <<d>>
          /\ metadata = MetadataExtractor_run(d)
    /\ issues \in IssueLists
    /\ df = 0
    /\ execution_log = <<>>
    /\ id_columns = <<>>
    /\ original_row_count = -1
    /\ pc = "r_caller"
    /\ all_fixes = <<>>
    /\ recommended_fixes = <<>>
    /\ fix_idx = 0
    /\ attempts = <<>>
    /\ entry_df = heap[CallerRef]
    /\ returned = NotReturned
    /\ issue_idx = 0
    /\ recommender_df = 0
    /\ offered = <<>>
    /\ engine = NoEngine
    /\ check_idx = 0
    /\ detected_issues = NotDetected
    /\ report = NoReport

recommend_frame ==
    <<heap, df, execution_log, id_columns, original_row_count,
      recommended_fixes, fix_idx, attempts, entry_df, returned, issues,
      metadata, detection_vars, analysis_vars>>

\* engine = FixRecommendationEngine(df, issues, metadata), and the call of
\* generate_recommendations up to the loop
ConstructRecommender ==
    /\ pc = "r_caller"
    /\ recommender_df' = CallerRef
    /\ all_fixes' = <<>>
    /\ issue_idx' = 1
    /\ pc' = "r_loop"
    /\ UNCHANGED <<recommend_frame, offered>>

AtDetectedIssue == pc = "r_loop" /\ issue_idx <= Len(issues)

\* lines 48, 53-54: no strategy for the type of the issue
NoStrategyWith(strategy) ==
    /\ AtDetectedIssue
    /\ strategy = "None"
    /\ offered' = Append(offered, Offer(issues[issue_idx], Fixes(<<>>)))
    /\ issue_idx' = issue_idx + 1
    /\ UNCHANGED <<recommend_frame, pc, all_fixes, recommender_df>>

NoStrategy == NoStrategyWith(strategies_get(issues[issue_idx].issue_type))

\* lines 50-52: all_fixes.extend(strategy.generate_fixes(issue))
ExtendFixesWith(strategy, r) ==
    /\ AtDetectedIssue
    /\ strategy # "None"
    /\ r.exc = "none"
    /\ offered' = Append(offered, Offer(issues[issue_idx], r))
    /\ all_fixes' = all_fixes \o r.fixes
    /\ issue_idx' = issue_idx + 1
    /\ UNCHANGED <<recommend_frame, pc, recommender_df>>

\* line 51 raises: nothing in generate_recommendations catches it
GenerateRaisesWith(strategy, r) ==
    /\ AtDetectedIssue
    /\ strategy # "None"
    /\ r.exc # "none"
    /\ offered' = Append(offered, Offer(issues[issue_idx], r))
    /\ pc' = "r_raised"
    /\ UNCHANGED <<recommend_frame, all_fixes, issue_idx, recommender_df>>

Generated(strategy) ==
    generate_fixes(strategy, heap[recommender_df], metadata, issues[issue_idx])

ExtendFixes ==
    /\ AtDetectedIssue
    /\ LET strategy == strategies_get(issues[issue_idx].issue_type)
       IN ExtendFixesWith(strategy, Generated(strategy))

GenerateRaises ==
    /\ AtDetectedIssue
    /\ LET strategy == strategies_get(issues[issue_idx].issue_type)
       IN GenerateRaisesWith(strategy, Generated(strategy))

\* line 56
ReturnAllFixes ==
    /\ pc = "r_loop"
    /\ issue_idx > Len(issues)
    /\ pc' = "r_returned"
    /\ UNCHANGED <<recommend_frame, all_fixes, issue_idx, recommender_df, offered>>

NextR ==
    \/ ConstructRecommender
    \/ NoStrategy
    \/ ExtendFixes
    \/ GenerateRaises
    \/ ReturnAllFixes

SpecRecommend == InitR /\ [][NextR]_vars

(***************************************************************************)
(* Properties of the batch recommender.                                    *)
(***************************************************************************)
\* C11: strategy-failure containment.  A generate_fixes never raises: for
\* every issue and every content of its column it returns a list of fixes,
\* so that generate_recommendations goes through every issue of the list.
C11_StrategyNeverRaises ==
    /\ pc # "r_raised"
    /\ \A k \in 1..Len(offered) : offered[k].exc = "none"

RECURSIVE FixesOf(_)
\* the fixes of a sequence of answers of the strategies, in their order
FixesOf(answers) ==
    IF answers = <<>> THEN <<>>
    ELSE answers[1].fixes \o FixesOf(Tail(answers))

Unrouted(issue) == issue.issue_type \notin strategies

\* C12: unknown issue type.  An issue whose issue_type has no registered
\* strategy contributes no fix and raises nothing, and the fixes of the other
\* issues are produced all the same, in the order of the issues: the issues
\* are taken in order, all_fixes is the fixes of the issues taken so far, and
\* the list returned holds, for every issue of a registered type, what its
\* strategy generates.
C12_UnknownIssueType ==
    /\ Len(offered) <= Len(issues)
    /\ \A k \in 1..Len(offered) :
          /\ offered[k].issue = issues[k]
          /\ Unrouted(issues[k]) =>
                offered[k].fixes = <<>> /\ offered[k].exc = "none"
    /\ pc \in {"r_loop", "r_returned"} =>
          /\ Len(offered) = issue_idx - 1
          /\ all_fixes = FixesOf(offered)
    /\ pc = "r_returned" =>
          /\ Len(offered) = Len(issues)
          /\ \A k \in 1..Len(issues) :
                ~Unrouted(issues[k]) =>
                    offered[k].fixes =
                        generate_fixes(issues[k].issue_type, heap[CallerRef],
                                       metadata, issues[k]).fixes

\* an issue of an unregistered type was passed over, and the run returned the
\* fixes of the issue that follows it
C12_Witness ==
    /\ pc = "r_returned"
    /\ Len(issues) = 2
    /\ Unrouted(issues[1])
    /\ ~Unrouted(issues[2])
    /\ offered[2].fixes # <<>>
    /\ all_fixes = offered[2].fixes

(***************************************************************************)
(* Properties of the interactive run: columns dropped on the way.          *)
(***************************************************************************)
\* a fix of the run has removed the column from the working dataset
DroppedByFix(column) ==
    /\ df # 0
    /\ ~HasCol(heap[df], column)
    /\ \E i \in 1..Len(attempts) :
          /\ attempts[i].fix.column = column
          /\ attempts[i].outcome = "done"
          /\ HasCol(attempts[i].before, column)
          /\ ~HasCol(attempts[i].after, column)

\* C13: interactive mode, dropped column.  Once a fix has removed a column
\* from the working dataset, a later issue of the list on that column is
\* skipped: the step of the run at that issue asks for no recommendation,
\* applies no fix, raises nothing and goes to the next issue.
C13_DroppedColumnSkipped ==
    [][(AtIssue /\ DroppedByFix(issues[issue_idx].column)) =>
          /\ pc' = "i_loop"
          /\ issue_idx' = issue_idx + 1
          /\ offered' = offered
          /\ attempts' = attempts
          /\ heap' = heap
          /\ df' = df
          /\ execution_log' = execution_log]_vars

\* the first issue had its column dropped, the second issue, on the same
\* column, was passed over, and the run returned
C13_Witness ==
    /\ pc = "i_returned"
    /\ Len(issues) = 2
    /\ issues[2].column = issues[1].column
    /\ DroppedByFix(issues[2].column)
    /\ Len(attempts) = 1
    /\ attempts[1].fix.fix_id = "FIX_DROP_COLUMN"
    /\ Len(offered) = 1

(***************************************************************************)
(* FixingEngine/ImpactAnalyzer.py: the quality score of a dataset.  The    *)
(* percentages are exact fractions n / d, with d > 0.                      *)
(***************************************************************************)
Frac(n, d) == [n |-> n, d |-> d]
Whole(k) == Frac(k, 1)
FracLt(a, b) == a.n * b.d < b.n * a.d
FracLe(a, b) == a.n * b.d <= b.n * a.d
FracEq(a, b) == a.n * b.d = b.n * a.d
FracSub(a, b) == Frac(a.n * b.d - b.n * a.d, a.d * b.d)

\* df.count().sum(): the cells that are not null
CountNonNull(d) ==
    SumSeq([i \in 1..NRows(d) |->
               Cardinality({c \in Range(d.cols) : ~IsNa(d.rows[i][c])})])

\* df.duplicated().sum(): the rows equal to a row before them; a dataset
\* without rows or without columns has none
DuplicatedSum(d) ==
    IF NRows(d) = 0 \/ d.cols = <<>> THEN 0
    ELSE Cardinality({i \in 1..NRows(d) : \E j \in 1..(i - 1) : d.rows[j] = d.rows[i]})

calculate_completeness(d) ==
    LET total_cells == NRows(d) * Len(d.cols)
        non_null_cells == CountNonNull(d)
    IN IF total_cells > 0 THEN Frac(non_null_cells * 100, total_cells)
       ELSE Whole(0)

duplicate_penalty(d) ==
    IF NRows(d) > 0 THEN Frac(DuplicatedSum(d) * 10, NRows(d)) ELSE Whole(0)

\* min(a, b) and max(a, b) of Python: the first of the two unless the second
\* is smaller, or larger
PyMin(a, b) == IF FracLt(b, a) THEN b ELSE a
PyMax(a, b) == IF FracLt(a, b) THEN b ELSE a

\* the score without line 56
calculate_quality_score_unclamped(d) ==
    FracSub(calculate_completeness(d), duplicate_penalty(d))

calculate_quality_score(d) ==
    LET quality_score == FracSub(calculate_completeness(d), duplicate_penalty(d))
    IN PyMax(Whole(0), PyMin(Whole(100), quality_score))

\* the datasets given to the analyzer: up to two columns, of numbers and
\* null cells, and any number of rows up to MaxRows
AnalysisCols == {<<>>, <<N_age>>, <<N_age, N_salary>>}

AnalysisDatasets ==
    UNION {{[cols |-> cols, rows |-> r] :
               r \in SeqsUpTo([Range(cols) -> {Num(1), NaN}], MaxRows)} :
           cols \in AnalysisCols}

InitA ==
    /\ heap \in {<<d>> : d \in AnalysisDatasets}
    /\ df = 0
    /\ execution_log = <<>>
    /\ id_columns = <<>>
    /\ original_row_count = -1
    /\ pc = "a_caller"
    /\ all_fixes = <<>>
    /\ recommended_fixes = <<>>
    /\ fix_idx = 0
    /\ attempts = <<>>
    /\ entry_df = heap[CallerRef]
    /\ returned = NotReturned
    /\ issues = <<>>
    /\ issue_idx = 0
    /\ metadata = <<>>
    /\ recommender_df = 0
    /\ offered = <<>>
    /\ engine = NoEngine
    /\ check_idx = 0
    /\ detected_issues = NotDetected
    /\ report = NoReport

\* analyzer.calculate_quality_score(df), as generate_report calls it
CalculateQualityScore ==
    /\ pc = "a_caller"
    /\ report' = [done |-> TRUE,
                  completeness |-> calculate_completeness(heap[CallerRef]),
                  quality_score |-> calculate_quality_score(heap[CallerRef])]
    /\ pc' = "a_done"
    /\ UNCHANGED <<heap, df, execution_log, id_columns, batch_vars, attempts,
                   entry_df, returned, controller_vars, detection_vars>>

NextA == CalculateQualityScore

SpecAnalysis == InitA /\ [][NextA]_vars

\* the rows that repeat a row before them
RepeatedRows(d) ==
    {i \in 1..NRows(d) : \E j \in 1..(i - 1) : d.rows[j] = d.rows[i]}

\* C14: quality score.  For every dataset, one without rows or without
\* columns included, calculate_quality_score returns the completeness minus
\* 10 times the fraction of duplicate rows, clamped to [0, 100], where the
\* completeness is non-null cells / cells x 100, and 0 without cells; the
\* result is never below 0 nor above 100.
C14_QualityScore ==
    report.done =>
        LET d == heap[CallerRef]
            q == report.quality_score
            cells == NRows(d) * Len(d.cols)
            non_null == Cardinality({<<i, c>> \in (1..NRows(d)) \X Range(d.cols) :
                                        ~IsNa(d.rows[i][c])})
            \* completeness - 10 x fraction, over the denominator cells x rows
            num == 100 * non_null * NRows(d)
                     - 10 * Cardinality(RepeatedRows(d)) * cells
            den == cells * NRows(d)
        IN /\ q.d > 0
           /\ 0 <= q.n
           /\ q.n <= 100 * q.d
           /\ IF cells = 0 THEN q.n = 0
              ELSE CASE num < 0         -> q.n = 0
                     [] num > 100 * den -> q.n = 100 * q.d
                     [] OTHER           -> q.n * den = num * q.d

\* a dataset of null cells only, with a repeated row: the completeness minus
\* the penalty is negative and the score is 0
C14_Witness ==
    /\ report.done
    /\ NRows(heap[CallerRef]) >= 2
    /\ heap[CallerRef].cols # <<>>
    /\ report.completeness.n = 0
    /\ RepeatedRows(heap[CallerRef]) # {}
    /\ report.quality_score.n = 0

(***************************************************************************)
(* The text fixes applied twice: the batch run of a list that holds the    *)
(* same fix two times, on a column of texts and null cells.                *)
(***************************************************************************)
TextPool ==
    {Str(<<" ","A","?","!">>), Str(<<"N","/","A"," ">>), Str(<<"?">>), NaN}

TextDatasets ==
    {[cols |-> BatchCols, rows |-> [i \in 1..Len(names) |-> Row(Num(i), Num(30), names[i])]] :
        names \in SeqsUpTo(TextPool, MaxRows) \ {<<>>}}

TextFixIds ==
    {"FIX_STRIP_WHITESPACE", "FIX_REMOVE_SPECIAL_CHARS",
     "FIX_STANDARDIZE_CASE_LOWER", "FIX_PROXY_TO_NAN"}

TwiceLists ==
    {<<f, f>> : f \in {DataFix(fix_id, "TEXT", N_name, TRUE, NoMetadata) :
                          fix_id \in TextFixIds}}

InitT ==
    /\ heap \in {<<d>> : d \in TextDatasets}
    /\ df = 0
    /\ execution_log = <<>>
    /\ id_columns = <<>>
    /\ original_row_count = -1
    /\ pc = "caller"
    /\ all_fixes \in TwiceLists
    /\ recommended_fixes = <<>>
    /\ fix_idx = 0
    /\ attempts = <<>>
    /\ entry_df = heap[CallerRef]
    /\ returned = NotReturned
    /\ issues = <<>>
    /\ issue_idx = 0
    /\ metadata = <<>>
    /\ recommender_df = 0
    /\ offered = <<>>
    /\ engine = NoEngine
    /\ check_idx = 0
    /\ detected_issues = NotDetected
    /\ report = NoReport

SpecTwice == InitT /\ [][Next]_vars

\* the attempt of a text fix that follows an attempt of the same fix on the
\* same column, with nothing in between
Reapplied(i) ==
    /\ i > 1
    /\ attempts[i].fix.fix_id \in TextFixIds
    /\ attempts[i].fix.fix_id = attempts[i - 1].fix.fix_id
    /\ attempts[i].fix.column = attempts[i - 1].fix.column
    /\ attempts[i - 1].outcome = "done"
    /\ attempts[i].outcome = "done"
    /\ attempts[i].before = attempts[i - 1].after

\* C15: idempotence.  For strip-whitespace, remove-special-characters,
\* lowercase standardization and proxy-to-NaN, applying the fix to the column
\* that its first application produced leaves every cell of the column as it
\* is: f(f(c)) = f(c), for columns of strings and null cells.
C15_Idempotence ==
    \A i \in 1..Len(attempts) :
        Reapplied(i) =>
            Column(attempts[i].after, attempts[i].fix.column)
                = Column(attempts[i].before, attempts[i].fix.column)

\* a fix was applied twice, and its first application changed the column
C15_Witness ==
    /\ Len(attempts) = 2
    /\ Reapplied(2)
    /\ attempts[1].before # attempts[1].after
    /\ \E i \in 1..NRows(attempts[1].before) :
          /\ IsNa(attempts[1].before.rows[i][N_name])
          /\ \E j \in 1..NRows(attempts[1].before) :
                IsStr(attempts[1].before.rows[j][N_name])

(***************************************************************************)
(* The stages in a row, as main.py chains them: the detection engine, the  *)
(* recommender on the issues detected, and the executor on the fixes       *)
(* recommended.                                                            *)
(***************************************************************************)
IdCols == <<N_customer_id, N_age>>

\* the values of the identifiers in the rows of a dataset
IdPool == 1..3

\* rows of an identifier and of an age that tells the rows apart
IdDataset(ids) ==
    [cols |-> IdCols,
     rows |-> [i \in 1..Len(ids) |->
                  [x \in Range(IdCols) |->
                      IF x = N_customer_id THEN Num(ids[i]) ELSE Num(20 + i)]]]

\* customer_id of dirty_test_data.py
DirtyIds == <<1, 2, 2, 4, 5, 6>>

IdDatasets ==
    {IdDataset(ids) : ids \in (SeqsUpTo(IdPool, MaxRows) \ {<<>>}) \cup {DirtyIds}}

W_future == <<"2","0","3","0","-","0","1","-","0","1">>

\* identifiers beside a column of another kind: a city with a null, a date
\* to come
Beside(ids, column, cells) ==
    [cols |-> <<N_customer_id, column>>,
     rows |-> [i \in 1..Len(ids) |->
                  [x \in {N_customer_id, column} |->
                      IF x = N_customer_id THEN Num(ids[i]) ELSE cells[i]]]]

BesideDatasets ==
    {Beside(ids, N_city, <<Str(<<"x">>), Str(<<"x">>), NaN>>) : ids \in [1..3 -> IdPool]}
    \cup {Beside(ids, N_joined, <<Str(W_jan5), Str(W_future), Str(W_feb1)>>) :
             ids \in [1..3 -> IdPool]}

PipelineDatasets == IdDatasets \cup BesideDatasets

InitP ==
    /\ heap \in {<<d>> : d \in PipelineDatasets}
    /\ df = 0
    /\ execution_log = <<>>
    /\ id_columns = <<>>
    /\ original_row_count = -1
    /\ pc = "d_caller"
    /\ all_fixes = <<>>
    /\ recommended_fixes = <<>>
    /\ fix_idx = 0
    /\ attempts = <<>>
    /\ entry_df = heap[CallerRef]
    /\ returned = NotReturned
    /\ issues = <<>>
    /\ issue_idx = 0
    /\ metadata = <<>>
    /\ recommender_df = 0
    /\ offered = <<>>
    /\ engine = NoEngine
    /\ check_idx = 0
    /\ detected_issues = NotDetected
    /\ report = NoReport

\* the issues detected and the metadata of the dataset go to the recommender
HandToRecommender ==
    /\ pc = "d_returned"
    /\ issues' = detected_issues.issues
    /\ metadata' = MetadataExtractor_run(heap[CallerRef])
    /\ pc' = "r_caller"
    /\ UNCHANGED <<executor_vars, batch_vars, detection_vars, analysis_vars,
                   issue_idx, recommender_df, offered>>

\* the fixes go to the executor, which applies those recommended
HandToExecutor ==
    /\ pc = "r_returned"
    /\ pc' = "caller"
    /\ UNCHANGED <<executor_vars, batch_vars, detection_vars, analysis_vars,
                   controller_vars>>

NextP ==
    \/ NextD
    \/ HandToRecommender
    \/ NextR
    \/ HandToExecutor
    \/ Next

SpecPipeline == InitP /\ [][NextP]_vars

\* the identifier columns of the caller's dataset that hold a value twice
ClashingIds ==
    {c \in Range(detect_id_columns(entry_df)) : HasDuplicate(Column(entry_df, c))}

\* the places of the sequence s whose element satisfies the test
PlacesOf(s, Test(_)) == {k \in 1..Len(s) : Test(s[k])}

\* the rows of the caller's dataset whose identifier no earlier row holds
FirstOfEachId(c) ==
    {i \in 1..NRows(entry_df) :
        \A j \in 1..(i - 1) : entry_df.rows[j][c] # entry_df.rows[i][c]}

\* the k-th place of a set of places, in their order
NthPlace(places, k) ==
    CHOOSE i \in places : Cardinality({j \in places : j < i}) = k - 1

\* C16: when an identifier column of the dataset holds a value twice, the
\* detection reports exactly one Identity Clash issue on that column, the
\* only fix recommended for it is keep-first, and the batch that applies it
\* returns one row per distinct identifier, the first one, with the
\* identifiers renumbered 1..N; customer_id = [1,2,2,4,5,6] ends as five rows
\* numbered [1,2,3,4,5].
C16_DuplicateIdentifier ==
    \A c \in ClashingIds :
        /\ detected_issues.done =>
              Cardinality(PlacesOf(detected_issues.issues,
                  LAMBDA i : i.issue_type = "Identity Clash" /\ i.column = c)) = 1
        /\ pc \in {"r_returned", "caller", "constructed", "loop", "returned"} =>
              \E k \in 1..Len(all_fixes) :
                  /\ all_fixes[k].fix_id = "FIX_KEEP_FIRST_ID"
                  /\ PlacesOf(all_fixes,
                         LAMBDA f : /\ f.issue_id = "ID_CLASH"
                                    /\ f.column = c
                                    /\ f.is_recommended) = {k}
        /\ pc = "returned" =>
              LET out  == heap[returned.df]
                  keep == FirstOfEachId(c)
                  N    == Cardinality({entry_df.rows[i][c] : i \in 1..NRows(entry_df)})
              IN /\ NRows(out) = N
                 /\ Column(out, c) = OneToN(N)
                 /\ \A x \in Range(entry_df.cols) \ {c} :
                       Column(out, x) =
                           [k \in 1..N |-> entry_df.rows[NthPlace(keep, k)][x]]
                 /\ entry_df = IdDataset(DirtyIds) =>
                       /\ NRows(out) = 5
                       /\ Column(out, N_customer_id) =
                              <<Num(1), Num(2), Num(3), Num(4), Num(5)>>

\* the six rows of the test data, after the batch
C16_Witness ==
    /\ pc = "returned"
    /\ entry_df = IdDataset(DirtyIds)
    /\ N_customer_id \in ClashingIds
    /\ Len(attempts) = 1
    /\ attempts[1].fix.fix_id = "FIX_KEEP_FIRST_ID"
    /\ NRows(heap[returned.df]) = 5

(***************************************************************************)
(* The date standardization applied by the batch, and a second detection   *)
(* pass over the dataset it returns.                                       *)
(***************************************************************************)
W_2023_01_01 == <<"2","0","2","3","-","0","1","-","0","1">>
W_2023_07_12 == <<"2","0","2","3",".","0","7",".","1","2">>
W_13_05      == <<"1","3","/","0","5","/","2","0","2","3">>
W_not_a_date == <<"n","o","t","_","a","_","d","a","t","e">>

\* joined_date of dirty_test_data.py, the four values of the specification
\* and the two well-formed ones that follow them
DirtyDates ==
    <<Str(W_2023_01_01), Str(W_slash), Str(W_2023_07_12), Str(W_not_a_date),
      Str(<<"2","0","2","3","-","1","2","-","1","2">>),
      Str(<<"2","0","2","3","-","0","5","-","0","1">>)>>

DatePool == {Str(W_slash), Str(W_13_05), Str(W_not_a_date), NaN}

DateDataset(cells) ==
    [cols |-> <<N_joined>>,
     rows |-> [i \in 1..Len(cells) |-> [x \in {N_joined} |-> cells[i]]]]

DateDatasets ==
    {DateDataset(cells) :
        cells \in (SeqsUpTo(DatePool, MaxRows) \ {<<>>}) \cup {DirtyDates}}

StandardizeJoined ==
    DataFix("FIX_STANDARDIZE_DATE_FORMAT", "DATE_FORMAT_MIXED", N_joined, TRUE,
            NoMetadata)

InitS ==
    /\ heap \in {<<d>> : d \in DateDatasets}
    /\ df = 0
    /\ execution_log = <<>>
    /\ id_columns = <<>>
    /\ original_row_count = -1
    /\ pc = "caller"
    /\ all_fixes = <<StandardizeJoined>>
    /\ recommended_fixes = <<>>
    /\ fix_idx = 0
    /\ attempts = <<>>
    /\ entry_df = heap[CallerRef]
    /\ returned = NotReturned
    /\ issues = <<>>
    /\ issue_idx = 0
    /\ metadata = <<>>
    /\ recommender_df = 0
    /\ offered = <<>>
    /\ engine = NoEngine
    /\ check_idx = 0
    /\ detected_issues = NotDetected
    /\ report = NoReport

\* the dataset the batch returned is the one the next pass is given
SecondPass ==
    /\ pc = "returned"
    /\ heap' = [heap EXCEPT ![CallerRef] = heap[returned.df]]
    /\ pc' = "d_caller"
    /\ UNCHANGED <<df, execution_log, id_columns, attempts, entry_df, returned,
                   batch_vars, controller_vars, detection_vars, analysis_vars>>

NextS ==
    \/ Next
    \/ SecondPass
    \/ NextD

SpecStandardize == InitS /\ [][NextS]_vars

\* the date that the first of date_formats to parse a text gives it
FirstFormatDate(s) ==
    LET parses == [j \in 1..Len(date_formats) |-> ParseFmt(s, date_formats[j])]
    IN IF FirstOk(parses) = 0 THEN NaT ELSE parses[FirstOk(parses)]

\* what the claim expects of one cell
Normalized(cell) ==
    IF IsStr(cell) /\ FirstFormatDate(cell.s).ok
    THEN Str(Strftime(FirstFormatDate(cell.s)))
    ELSE cell

W_2023_01_05 == <<"2","0","2","3","-","0","1","-","0","5">>
W_2023_07_12_iso == <<"2","0","2","3","-","0","7","-","1","2">>

\* the four values of the specification's example, after the fix
ExampleNormalized ==
    entry_df = DateDataset(DirtyDates) =>
        SubSeq(Column(heap[returned.df], N_joined), 1, 4) =
            <<Str(W_2023_01_01), Str(W_2023_01_05), Str(W_2023_07_12_iso),
              Str(W_not_a_date)>>

\* the second pass reports the value left as it was
ExampleReported ==
    (entry_df = DateDataset(DirtyDates) /\ detected_issues.done) =>
        \E k \in 1..Len(detected_issues.issues) :
            /\ detected_issues.issues[k].issue_type = "Invalid Date Format"
            /\ detected_issues.issues[k].column = N_joined

\* C17: after the batch applied the date standardization, every text of the
\* column that a format of the ordered list parses is the YYYY-MM-DD text of
\* the date given by the first format that parses it, every other value is
\* as it was; the example column ends as 2023-01-01, 2023-01-05, 2023-07-12,
\* not_a_date, and the second detection pass reports an Invalid Date Format
\* issue on it.
C17_DateNormalization ==
    /\ returned # NotReturned =>
          /\ \A i \in 1..NRows(entry_df) :
                heap[returned.df].rows[i][N_joined] =
                    Normalized(entry_df.rows[i][N_joined])
          /\ ExampleNormalized
    /\ ExampleReported

(***************************************************************************)
(* The detection on a column of ages.                                      *)
(***************************************************************************)
W_twenty == <<"t","w","e","n","t","y">>

\* age of dirty_test_data.py
DirtyAges == <<Num(25), Num(-5), Num(30), Str(W_twenty), Num(45), Num(150)>>

\* ages of a numeric dtype, the last one more than three deviations away
ElevenAges == [i \in 1..11 |-> IF i = 11 THEN Num(150) ELSE Num(30)]

AgePool == {Num(25), Num(-5), Str(W_twenty), Num(150)}

AgeDataset(cells) ==
    [cols |-> <<N_age>>,
     rows |-> [i \in 1..Len(cells) |-> [x \in {N_age} |-> cells[i]]]]

AgeDatasets ==
    {AgeDataset(cells) :
        cells \in (SeqsUpTo(AgePool, MaxRows) \ {<<>>}) \cup {DirtyAges, ElevenAges}}

InitG ==
    /\ heap \in {<<d>> : d \in AgeDatasets}
    /\ df = 0
    /\ execution_log = <<>>
    /\ id_columns = <<>>
    /\ original_row_count = -1
    /\ pc = "d_caller"
    /\ all_fixes = <<>>
    /\ recommended_fixes = <<>>
    /\ fix_idx = 0
    /\ attempts = <<>>
    /\ entry_df = heap[CallerRef]
    /\ returned = NotReturned
    /\ issues = <<>>
    /\ issue_idx = 0
    /\ metadata = <<>>
    /\ recommender_df = 0
    /\ offered = <<>>
    /\ engine = NoEngine
    /\ check_idx = 0
    /\ detected_issues = NotDetected
    /\ report = NoReport

SpecAges == InitG /\ [][NextD]_vars

\* the number of the issues of a type that run_all_checks returned on age
OnAge(issue_type) ==
    Cardinality(PlacesOf(detected_issues.issues,
        LAMBDA i : i.issue_type = issue_type /\ i.column = N_age))

Ages == Column(entry_df, N_age)

\* C18: run_all_checks on a column of ages returns no Extreme Outlier issue
\* on it, at most one issue each of Numeric Validity, Type Mismatch and
\* Domain Constraint Violation, the first only when an age is negative, the
\* second only when a value has letters, the third exactly when an age is
\* outside 0..120; on age = [25, -5, 30, 'twenty', 45, 150] it returns
\* exactly one of each of the three.
C18_AgeDetection ==
    detected_issues.done =>
        /\ OnAge("Extreme Outlier") = 0
        /\ OnAge("Numeric Validity") <= 1
        /\ OnAge("Numeric Validity") = 1 => AnyCell(Ages, NumericBelow0)
        /\ OnAge("Type Mismatch") <= 1
        /\ OnAge("Type Mismatch") = 1 =>
              AnyCell(Ages, LAMBDA c : IsStr(c) /\ HasAlpha(c.s))
        /\ OnAge("Domain Constraint Violation") =
              IF AnyCell(Ages, LAMBDA c : IsNum(c) /\ (c.v > 120 \/ c.v < 0))
              THEN 1 ELSE 0
        /\ Ages = DirtyAges =>
              /\ OnAge("Numeric Validity") = 1
              /\ OnAge("Type Mismatch") = 1
              /\ OnAge("Domain Constraint Violation") = 1

\* the column of the test data, after the seventeen checks
C18_Witness ==
    /\ pc = "d_returned"
    /\ Ages = DirtyAges
    /\ Len(detected_issues.issues) = 3
    /\ OnAge("Domain Constraint Violation") = 1
    /\ OnAge("Extreme Outlier") = 0

(***************************************************************************)
(* The recommender on the issues of a monetary column, and the batch on    *)
(* the fixes it recommends.                                                *)
(***************************************************************************)
W_70_000 == <<"7","0",",","0","0","0">>

\* salary of dirty_test_data.py
DirtySalary ==
    <<Num(50000), Num(0), Num(60000), Str(W_70_000), NaN, Num(55000)>>

\* an amount, a zero, a text with a comma that stands for 10, a null
MoneyPool == {Num(1), Num(0), Str(<<"1",",","0">>), NaN}

MoneyDataset(cells) ==
    [cols |-> <<N_salary>>,
     rows |-> [i \in 1..Len(cells) |-> [x \in {N_salary} |-> cells[i]]]]

InvalidMonetaryIssue == Issue("INVALID_MONETARY", N_salary, "Domain Constraint Violation")

\* the issue of the zero amounts alone, after an issue without a strategy,
\* and beside the issue of the nulls of the column
MoneyIssueLists ==
    {<<InvalidMonetaryIssue>>,
     <<Issue("FUTURE_DATE", N_salary, "Time-Travel Error"), InvalidMonetaryIssue>>,
     <<InvalidMonetaryIssue, Issue("MISSING_VAL", N_salary, "Missing Data")>>,
     <<Issue("MISSING_VAL", N_salary, "Missing Data"), InvalidMonetaryIssue>>}

MoneyRuns ==
    {<<MoneyDataset(cells), l>> :
        cells \in SeqsUpTo(MoneyPool, MaxRows) \ {<<>>}, l \in MoneyIssueLists}
    \cup {<<MoneyDataset(DirtySalary), <<InvalidMonetaryIssue>>>>}

InitM ==
    /\ \E run \in MoneyRuns :
          /\ heap = <<run[1]>>
          /\ issues = run[2]
          /\ metadata = MetadataExtractor_run(run[1])
    /\ df = 0
    /\ execution_log = <<>>
    /\ id_columns = <<>>
    /\ original_row_count = -1
    /\ pc = "r_caller"
    /\ all_fixes = <<>>
    /\ recommended_fixes = <<>>
    /\ fix_idx = 0
    /\ attempts = <<>>
    /\ entry_df = heap[CallerRef]
    /\ returned = NotReturned
    /\ issue_idx = 0
    /\ recommender_df = 0
    /\ offered = <<>>
    /\ engine = NoEngine
    /\ check_idx = 0
    /\ detected_issues = NotDetected
    /\ report = NoReport

NextM ==
    \/ NextR
    \/ HandToExecutor
    \/ Next

SpecMonetary == InitM /\ [][NextM]_vars

\* the number a cell stands for once the commas are out of its text
Amount(c) ==
    CASE IsNum(c) -> c
      [] IsStr(c) /\ IsNumeral(RemoveChars(c.s, {","})) ->
            NumeralValue(RemoveChars(c.s, {","}))
      [] OTHER -> NaN

\* the median of the amounts above 0, NaN when there is none
MedianOfPositive(cells) ==
    LET at == {i \in 1..Len(cells) : IsNum(Amount(cells[i])) /\ Gt(Amount(cells[i]), 0)}
    IN IF at = {} THEN NaN
       ELSE MedianOf2([k \in 1..Cardinality(at) |->
                          Twice(Amount(cells[NthPlace(at, k)]))])

\* what the claim expects of a column
MonetaryFixed(cells) ==
    [i \in 1..Len(cells) |->
        IF IsNum(Amount(cells[i])) /\ Le(Amount(cells[i]), 0)
        THEN MedianOfPositive(cells)
        ELSE Amount(cells[i])]

\* C19: the only fix recommended for an INVALID_MONETARY issue is the
\* replacement by the median; where the batch applies it, every amount of
\* the column that was 0 or less is the median of the amounts above 0, a
\* text of digits and commas is its number, the other amounts are as they
\* were, and no amount of 0 or less is left; in
\* salary = [50000, 0, 60000, '70,000', NaN, 55000] the 0 becomes 57500.
C19_MonetaryFix ==
    /\ pc \in {"r_returned", "caller", "constructed", "loop", "returned"} =>
          \E k \in 1..Len(all_fixes) :
              /\ all_fixes[k].fix_id = "FIX_ZERO_MONETARY_TO_MEDIAN"
              /\ PlacesOf(all_fixes,
                     LAMBDA f : f.issue_id = "INVALID_MONETARY" /\ f.is_recommended)
                    = {k}
    /\ \A k \in 1..Len(attempts) :
          (attempts[k].fix.fix_id = "FIX_ZERO_MONETARY_TO_MEDIAN"
              /\ attempts[k].outcome = "done") =>
             LET before == Column(attempts[k].before, N_salary)
                 after  == Column(attempts[k].after, N_salary)
             IN /\ after = MonetaryFixed(before)
                /\ \A i \in 1..Len(after) : ~(IsNum(after[i]) /\ Le(after[i], 0))
                /\ before = DirtySalary =>
                      after = <<Num(50000), Num(57500), Num(60000), Num(70000),
                                NaN, Num(55000)>>

\* the column of the test data, after the batch
C19_Witness ==
    /\ pc = "returned"
    /\ Column(entry_df, N_salary) = DirtySalary
    /\ Len(attempts) = 1
    /\ attempts[1].fix.fix_id = "FIX_ZERO_MONETARY_TO_MEDIAN"
    /\ attempts[1].outcome = "done"
    /\ Column(heap[returned.df], N_salary)[2] = Num(57500)
    /\ Column(heap[returned.df], N_salary)[4] = Num(70000)

\* the transformation of a registered fix that the controller selected left
\* with an exception
TransformationRaised(a) ==
    /\ Interactive
    /\ ~Unregistered(a)
    /\ a.outcome # "done"

\* C20: when the transformation of the fix selected for an issue raises in
\* InteractiveFixController.run, the exception does not leave run: the
\* dataset and the log are as they were before the fix, and the run is at
\* the next issue or has returned.
C20_InteractiveFailureContained ==
    \A i \in 1..Len(attempts) :
        TransformationRaised(attempts[i]) =>
            /\ pc \in {"i_loop", "i_returned"}
            /\ attempts[i].after = attempts[i].before
            /\ attempts[i].log_after = attempts[i].log_before

DuplicateRemoval(fix) == fix.fix_id \in {"FIX_KEEP_FIRST_ID", "FIX_DROP_EXACT_DUPLICATES"}

\* C22: in a batch of apply_recommended_fixes, once a duplicate-removal fix
\* has been applied no fix of another kind is applied after it.
C22_DeduplicationLast ==
    \A i, j \in 1..Len(attempts) :
       (/\ i < j
        /\ DuplicateRemoval(attempts[i].fix)
        /\ attempts[i].outcome = "done"
        /\ attempts[j].outcome = "done")
       => DuplicateRemoval(attempts[j].fix)


\* C23: the statistic that a fix writes is the one that the strategy stored
\* in the metadata of the Fix when it created it: where the batch applies
\* the replacement by the median, every amount that was 0 or less is the
\* median_value of the metadata.
C23_StatisticOfRecommendation ==
    \A k \in 1..Len(attempts) :
       (attempts[k].fix.fix_id = "FIX_ZERO_MONETARY_TO_MEDIAN"
           /\ attempts[k].outcome = "done") =>
          LET before == Column(attempts[k].before, N_salary)
              after  == Column(attempts[k].after, N_salary)
          IN \A i \in 1..Len(before) :
                (IsNum(Amount(before[i])) /\ Le(Amount(before[i]), 0)) =>
                   after[i] = attempts[k].fix.metadata.median_value


(***************************************************************************)
(* Two callers of the executor of Module_4_FixingEngine: each builds       *)
(* FixExecutor(df) and hands apply_fix the fixes of one list, in order.    *)
(* The model runs one of them; what the other can end with is every        *)
(* outcome that the same step allows.                                      *)
(***************************************************************************)
SequenceFixPool ==
    {DataFix("FIX_STOCHASTIC_FILL", "MISSING_VAL", N_salary, FALSE, NoMetadata),
     DataFix("FIX_STOCHASTIC_FILL", "MISSING_VAL", N_age, FALSE, NoMetadata),
     DataFix("FIX_STOCHASTIC_FILL", "MISSING_VAL", N_ghost, FALSE, NoMetadata),
     DataFix("FIX_DROP_ROWS", "MISSING_VAL", N_age, FALSE, NoMetadata),
     DataFix("FIX_KEEP_FIRST_ID", "ID_CLASH", N_id, TRUE, NoMetadata)}

FixSequences == SeqsUpTo(SequenceFixPool, MaxFixes)

InitF ==
    /\ \E d \in InteractiveDatasets :
          /\ heap = <<d>>
          /\ metadata = MetadataExtractor_run(d)
    /\ all_fixes \in FixSequences
    /\ issues = <<>>
    /\ df = 0
    /\ execution_log = <<>>
    /\ id_columns = <<>>
    /\ original_row_count = -1
    /\ pc = "f_caller"
    /\ recommended_fixes = <<>>
    /\ fix_idx = 0
    /\ attempts = <<>>
    /\ entry_df = heap[CallerRef]
    /\ returned = NotReturned
    /\ issue_idx = 0
    /\ recommender_df = 0
    /\ offered = <<>>
    /\ engine = NoEngine
    /\ check_idx = 0
    /\ detected_issues = NotDetected
    /\ report = NoReport

\* executor = FixExecutor(df)
ConstructExecutor ==
    /\ pc = "f_caller"
    /\ LET o == init_df(heap, CallerRef)
       IN /\ heap' = o.heap
          /\ df' = o.df
          /\ id_columns' = detect_id_columns(o.heap[o.df])
    /\ execution_log' = <<>>
    /\ fix_idx' = 1
    /\ pc' = "f_ready"
    /\ UNCHANGED <<original_row_count, all_fixes, recommended_fixes, controller_vars,
                   detection_vars, analysis_vars, attempts, entry_df, returned>>

\* executor.apply_fix(fix), with the outcome r of the call
CalledWith(fix, r) ==
    /\ heap' = r.heap
    /\ df' = r.df
    /\ execution_log' = r.log
    /\ attempts' = Append(attempts,
          [fix |-> fix,
           outcome |-> IF r.exc # "none" THEN r.exc ELSE "done",
           before |-> heap[df], after |-> r.heap[r.df],
           lost_before |-> 0,
           log_before |-> Len(execution_log), log_after |-> Len(r.log)])
    /\ IF r.exc # "none"
       THEN pc' = "f_raised" /\ fix_idx' = fix_idx
       ELSE pc' = "f_ready" /\ fix_idx' = fix_idx + 1

CallApplyFix ==
    /\ pc = "f_ready"
    /\ fix_idx <= Len(all_fixes)
    /\ \E chance \in Chances(heap[df], all_fixes[fix_idx]) :
          CalledWith(all_fixes[fix_idx], apply_fix(Self, all_fixes[fix_idx], chance))
    /\ UNCHANGED <<id_columns, original_row_count, all_fixes, recommended_fixes,
                   controller_vars, detection_vars, analysis_vars, entry_df, returned>>

NextF == ConstructExecutor \/ CallApplyFix

SpecSequence == InitF /\ [][NextF]_vars

\* the executor as it was before the attempt a, in a heap of its own
ExecutorBefore(a) ==
    [heap |-> <<a.before>>, df |-> 1, log |-> SubSeq(execution_log, 1, a.log_before),
     ids |-> id_columns, orig |-> original_row_count, exc |-> "none"]

\* the outcomes that a second executor has for the call of the attempt a, in
\* the same installation of the libraries
SecondExecutor(a) ==
    {apply_fix(ExecutorBefore(a), a.fix, chance) :
        chance \in {c \in Chances(a.before, a.fix) :
                       (a.outcome = "IndexError") <=> (c.keep_complete = "IndexError")}}

\* C24: the transformation of every registered fix_id is deterministic: a
\* second executor that starts from an equal dataset and is given the same
\* fixes has, after each of them, a working dataset and an execution log
\* equal to those of the first.
C24_Determinism ==
    \A k \in 1..Len(attempts) :
       \A r \in SecondExecutor(attempts[k]) :
          /\ r.heap[r.df] = attempts[k].after
          /\ r.log = SubSeq(execution_log, 1, attempts[k].log_after)


(***************************************************************************)
(* Detection and recommendation over a text column whose values differ in  *)
(* their case.                                                             *)
(***************************************************************************)
CasePool == {Str(<<"A", "B">>), Str(<<"a", "b">>), Str(<<"A", "b">>), NaN}

CaseDataset(cells) ==
    [cols |-> <<N_customer_id, N_name>>,
     rows |-> [i \in 1..Len(cells) |->
                  [x \in {N_customer_id, N_name} |->
                      IF x = N_customer_id THEN Num(i) ELSE cells[i]]]]

CaseDatasets ==
    {CaseDataset(cells) : cells \in SeqsUpTo(CasePool, MaxRows) \ {<<>>}}
    \cup {Beside(<<1, 2, 3>>, N_joined, <<Str(W_jan5), Str(W_future), Str(W_feb1)>>)}

InitC ==
    /\ heap \in {<<d>> : d \in CaseDatasets}
    /\ df = 0
    /\ execution_log = <<>>
    /\ id_columns = <<>>
    /\ original_row_count = -1
    /\ pc = "d_caller"
    /\ all_fixes = <<>>
    /\ recommended_fixes = <<>>
    /\ fix_idx = 0
    /\ attempts = <<>>
    /\ entry_df = heap[CallerRef]
    /\ returned = NotReturned
    /\ issues = <<>>
    /\ issue_idx = 0
    /\ metadata = <<>>
    /\ recommender_df = 0
    /\ offered = <<>>
    /\ engine = NoEngine
    /\ check_idx = 0
    /\ detected_issues = NotDetected
    /\ report = NoReport

NextC == NextD \/ HandToRecommender \/ NextR

SpecCase == InitC /\ [][NextC]_vars

\* C25: for every CASE_DIVERGE issue that the detection engine emits,
\* generate_recommendations returns the lowercase standardization of the
\* column of the issue, with is_recommended = true.
C25_CaseDivergenceRemediated ==
    pc = "r_returned" =>
       \A k \in 1..Len(issues) :
          issues[k].issue_id = "CASE_DIVERGE" =>
             \E n \in 1..Len(all_fixes) :
                /\ all_fixes[n].fix_id = "FIX_STANDARDIZE_CASE_LOWER"
                /\ all_fixes[n].column = issues[k].column
                /\ all_fixes[n].is_recommended


TextNormalization ==
    {"FIX_STRIP_WHITESPACE", "FIX_REMOVE_SPECIAL_CHARS", "FIX_REMOVE_NON_ASCII",
     "FIX_STANDARDIZE_CASE_LOWER"}

\* C26: a text normalization fix (strip whitespace, remove special
\* characters, remove non-ASCII, lowercase) leaves every null cell of its
\* column null and makes no other cell null.
C26_NormalizationKeepsMissing ==
    \A k \in 1..Len(attempts) :
       (/\ attempts[k].fix.fix_id \in TextNormalization
        /\ attempts[k].outcome = "done") =>
          LET before == Column(attempts[k].before, attempts[k].fix.column)
              after  == Column(attempts[k].after, attempts[k].fix.column)
          IN /\ Len(after) = Len(before)
             /\ \A i \in 1..Len(before) : IsNa(before[i]) <=> IsNa(after[i])


\* the answer to the last prompt for a fix number was not an integer in
\* 1..len(fixes)
OutOfList(o) ==
    /\ o.asked
    /\ ~(o.typed.is_int /\ o.typed.n \in 1..Len(o.fixes))

\* C27: when the fix number entered in InteractiveFixController.run is not
\* an integer in 1..len(fixes), no fix is applied for the issue, the dataset
\* and the log are unchanged, and the run goes on with the next issue.
C27_SelectionBounds ==
    [][(/\ Len(offered') = Len(offered) + 1
        /\ OutOfList(offered'[Len(offered')]))
       => /\ attempts' = attempts
          /\ heap' = heap
          /\ df' = df
          /\ execution_log' = execution_log
          /\ pc' = "i_loop"
          /\ issue_idx' = issue_idx + 1]_vars


(***************************************************************************)
(* Batches that drop a column: the batch run over lists of recommended     *)
(* fixes that drop a column, remove rows and fill cells.                   *)
(***************************************************************************)
DropFixPool ==
    {DataFix("FIX_DROP_COLUMN", "MISSING_DATA", N_id, TRUE, NoMetadata),
     DataFix("FIX_DROP_COLUMN", "MISSING_DATA", N_age, TRUE, NoMetadata),
     DataFix("FIX_DROP_ROWS", "MISSING_DATA", N_age, TRUE, NoMetadata),
     DataFix("FIX_KEEP_FIRST_ID", "DUPLICATE_ID", N_id, TRUE, NoMetadata),
     DataFix("FIX_MEDIAN_IMPUTE", "MISSING_DATA", N_age, TRUE, WithMedian(25))}

DropFixLists == SeqsUpTo(DropFixPool, MaxFixes)

InitB ==
    /\ heap \in {<<d>> : d \in BatchDatasets}
    /\ df = 0
    /\ execution_log = <<>>
    /\ id_columns = <<>>
    /\ original_row_count = -1
    /\ pc = "caller"
    /\ all_fixes \in DropFixLists
    /\ recommended_fixes = <<>>
    /\ fix_idx = 0
    /\ attempts = <<>>
    /\ entry_df = heap[CallerRef]
    /\ returned = NotReturned
    /\ issues = <<>>
    /\ issue_idx = 0
    /\ metadata = <<>>
    /\ recommender_df = 0
    /\ offered = <<>>
    /\ engine = NoEngine
    /\ check_idx = 0
    /\ detected_issues = NotDetected
    /\ report = NoReport

SpecDropped == InitB /\ [][Next]_vars

\* the columns that a fix of the run has dropped so far
DroppedColumns ==
    {attempts[k].fix.column :
        k \in {j \in 1..Len(attempts) :
                  /\ attempts[j].fix.fix_id = "FIX_DROP_COLUMN"
                  /\ attempts[j].outcome = "done"}}

\* C28: a column that the drop-column fix removed is absent from the
\* working dataset after every later fix, and from the dataset returned.
C28_DroppedStaysDropped ==
    \A c \in DroppedColumns :
       /\ ~HasCol(heap[df], c)
       /\ returned # NotReturned => ~HasCol(heap[returned.df], c)


(***************************************************************************)
(* Detection twice: run_all_checks, the recommendations for its issues,    *)
(* the batch of the recommended fixes, and run_all_checks over the         *)
(* dataset that the batch returned.                                        *)
(***************************************************************************)
RedetectTexts ==
    {Str(<<" ", "A">>), Str(<<"a", "!">>), Str(<<"?">>), Str(<<>>), Str(<<"b">>)}

RedetectAges == {Num(-1), Num(1), Num(2)}

RedetectDataset(column, cells) ==
    [cols |-> <<N_customer_id, column>>,
     rows |-> [i \in 1..Len(cells) |->
                  [x \in {N_customer_id, column} |->
                      IF x = N_customer_id THEN Num(IF i = 2 THEN 1 ELSE i)
                      ELSE cells[i]]]]

RedetectDatasets ==
    {RedetectDataset(N_name, cells) : cells \in SeqsUpTo(RedetectTexts, MaxRows) \ {<<>>}}
    \cup {RedetectDataset(N_age, cells) : cells \in SeqsUpTo(RedetectAges, MaxRows) \ {<<>>}}
    \cup {Beside(<<1, 2, 3>>, N_joined, <<Str(W_jan5), Str(W_future), Str(W_feb1)>>),
          Beside(<<1, 2, 3>>, N_city, <<Str(<<"x">>), Str(<<"x">>), NaN>>)}

InitX ==
    /\ heap \in {<<d>> : d \in RedetectDatasets}
    /\ df = 0
    /\ execution_log = <<>>
    /\ id_columns = <<>>
    /\ original_row_count = -1
    /\ pc = "d_caller"
    /\ all_fixes = <<>>
    /\ recommended_fixes = <<>>
    /\ fix_idx = 0
    /\ attempts = <<>>
    /\ entry_df = heap[CallerRef]
    /\ returned = NotReturned
    /\ issues = <<>>
    /\ issue_idx = 0
    /\ metadata = <<>>
    /\ recommender_df = 0
    /\ offered = <<>>
    /\ engine = NoEngine
    /\ check_idx = 0
    /\ detected_issues = NotDetected
    /\ report = NoReport

\* the issues of the first detection go to the recommender
HandFirstToRecommender ==
    /\ returned = NotReturned
    /\ HandToRecommender

NextX ==
    \/ NextD
    \/ HandFirstToRecommender
    \/ NextR
    \/ HandToExecutor
    \/ Next
    \/ SecondPass

SpecRedetect == InitX /\ [][NextX]_vars

\* the issues that the claim lists
ConvergingIssues ==
    {"WHITESPACE", "SPECIAL_CHARS", "PROXY_MISSING", "EMPTY_TEXT", "NEG_AGE",
     "RANGE_EXCEEDED", "IMPOSSIBLE_AGE", "INVALID_MONETARY", "ID_CLASH"}

SecondDetectionDone == pc = "d_returned" /\ returned # NotReturned

Redetected(fix) ==
    \E j \in 1..Len(detected_issues.issues) :
       /\ detected_issues.issues[j].issue_id = fix.issue_id
       /\ detected_issues.issues[j].column = fix.column

\* C29: an issue whose recommended fix the batch applied is not reported
\* again, with the same issue_id on the same column, by run_all_checks over
\* the cleaned dataset.
C29_RedetectionConverges ==
    SecondDetectionDone =>
       \A k \in 1..Len(attempts) :
          (/\ attempts[k].outcome = "done"
           /\ attempts[k].fix.is_recommended
           /\ attempts[k].fix.issue_id \in ConvergingIssues)
          => ~Redetected(attempts[k].fix)


\* the fixes that the strategies have emitted so far in the run
Emitted == UNION {Range(offered[k].fixes) : k \in 1..Len(offered)}

\* C30: every fix_id that a strategy emits has an implementation: one
\* emitted with is_recommended = true is a key of the fix_method_map of
\* apply_recommended_fixes, and every one emitted is a key of the
\* fix_method_map of apply_fix.
C30_DispatchClosure ==
    \A fix \in Emitted :
       /\ fix.is_recommended => fix.fix_id \in fix_method_map
       /\ fix.fix_id \in m4_fix_method_map

=============================================================================
